---------------------------- MODULE Spec2Model ----------------------------
(***************************************************************************)
(* rspace-online: the real-time synchronisation relay.                     *)
(*                                                                         *)
(*   server/community-store.ts  the document store, the peer sync-state    *)
(*                              table, the reconciliation step and the     *)
(*                              debounced persistence timer                *)
(*   server/index.ts            (src/unnamed/part_005) the WebSocket relay *)
(*   lib/community-sync.ts      (src/unnamed/part_001) the browser client  *)
(*                                                                         *)
(* The merge library (@automerge/automerge) is not part of the repository. *)
(* It is modelled by what its documented algorithm does: a document is a   *)
(* set of changes closed under their dependencies, its materialised value  *)
(* is a deterministic function of that set (multi-value registers, the     *)
(* greatest operation id wins), and the sync protocol is the one of        *)
(* automerge's sync.rs with an exact (no false positive) Bloom filter.     *)
(***************************************************************************)
EXTENDS Naturals, Integers, Sequences, FiniteSets, TLC

\* ------------------------------------------------------------------ bounds
MaxChanges == 3        \* changes ever authored
MaxPeers == 2          \* connections ever accepted (peer ids are never reused)
MaxTimers == 2         \* setTimeout handles ever created
MaxLoads == 2          \* loadCommunity calls ever suspended at a storage read
MaxActors == 4         \* actor ids ever drawn

\* ------------------------------------------------------- program constants
InitOps == 5           \* ops of an initial change: meta map, 3 fields, shapes map
PutOps == 8            \* ops of a whole-record put: the map and its 7 fields
DelOps == 1            \* ops of a delete

Slugs == {"garden"}
ShapeIds == {"s1"}
Widths == {10, 20}
\* The ids legacy frames name: two shapes, so that a frame for one of them
\* meets a document that holds the other.
LegacyIds == ShapeIds \cup {"s2"}
Names == {"Garden"}

\* A ShapeData record; the fields the handlers never look at are fixed.
ShapeData(id, w) ==
    [type |-> "rectangle", id |-> id, x |-> 0, y |-> 0, width |-> w,
     height |-> 10, rotation |-> 0]

ShapeValues == {ShapeData(s, w) : s \in ShapeIds, w \in Widths}

NoShape == [type |-> "", id |-> "", x |-> 0, y |-> 0, width |-> 0,
            height |-> 0, rotation |-> 0]

CommunityMeta(name, slug, createdAt) ==
    [name |-> name, slug |-> slug, createdAt |-> createdAt]

NoMeta == CommunityMeta("", "", 0)

VARIABLES
    hashesUsed,         \* hashes of the changes authored so far: 1..hashesUsed
    actorsUsed,         \* actor ids drawn so far
    clock,              \* Date.now / new Date(), a logical time
    communities,        \* slug -> Automerge.Doc (the in-memory cache)
    peerSyncStates,     \* slug -> (peerId -> PeerState)
    saveTimers,         \* slug -> the handle of the last timer armed
    communityClients,   \* slug -> (peerId -> ws)
    pendingTimers,      \* the runtime's armed timers: handle -> slug
    timersCreated,      \* setTimeout handles created so far
    writes,             \* Bun.write calls in progress
    disk,               \* STORAGE_DIR: slug -> [automerge, json]
    loads,              \* loadCommunity calls suspended at a storage read
    loadsStarted,       \* loadCommunity calls suspended so far
    peersCreated,       \* peer ids handed out so far
    wsState,            \* peerId -> the server side readyState of its socket
    wsSlug,             \* peerId -> ws.data.communitySlug
    outbox,             \* peerId -> frames the server sent on that socket
    toServer,           \* peerId -> frames the client sent on that socket
    clients,            \* the CommunitySync instances (browser side)
    creates,            \* POST /api/communities requests awaiting storage
    replies,            \* request id -> the response the request was given
    resize,             \* the page's ResizeManager and what it has called
    hist                \* observations of the run the properties are about

vars == <<hashesUsed, actorsUsed, clock, communities, peerSyncStates, saveTimers,
          communityClients, pendingTimers, timersCreated, writes, disk, loads,
          loadsStarted, peersCreated, wsState, wsSlug, outbox, toServer, clients,
          hist, creates,
          replies, resize>>

apiVars == <<creates, replies>>

pageVars == <<resize>>

\* ------------------------------------------------- ResizeManager (the page)
Elements == {"e1", "e2"}     \* the elements of the page
Callbacks == {"f", "g"}      \* the callbacks the page registers
Sizes == {10, 20}            \* the sizes a ResizeObserverEntry reports

\* new ResizeManager(): #elementMap and #elementEntry are empty and #vo
\* observes nothing.  calls is what the last step called: the set of
\* <<callback, target, size>>.
NewResizeManager ==
    [elementMap |-> <<>>, elementEntry |-> <<>>, observed |-> {}, calls |-> {}]

\* a with a[k] = v, and a without k
PageSet(a, k, v) == [x \in DOMAIN a \cup {k} |-> IF x = k THEN v ELSE a[x]]
PageDel(a, k) == [x \in DOMAIN a \ {k} |-> a[x]]

\* The callback given to new ResizeObserver, for one entry.
voCallback(R, target, size) ==
    [R EXCEPT !.elementEntry = PageSet(@, target, size),
              !.calls = IF target \in DOMAIN R.elementMap
                        THEN {<<cb, target, size>> : cb \in R.elementMap[target]}
                        ELSE {}]

\* observe(target, callback)
observe(R, target, callback) ==
    IF target \notin DOMAIN R.elementMap
    THEN [R EXCEPT !.observed = @ \cup {target},
                   !.elementMap = PageSet(@, target, {callback}),
                   !.calls = {}]
    ELSE [R EXCEPT !.elementMap[target] = @ \cup {callback},
                   !.calls = IF target \in DOMAIN R.elementEntry
                             THEN {<<callback, target, R.elementEntry[target]>>}
                             ELSE {}]

\* An unobserve that keeps the element when its last callback goes.
unobserveKeeps(R, target, callback) ==
    IF target \notin DOMAIN R.elementMap THEN [R EXCEPT !.calls = {}]
    ELSE [R EXCEPT !.elementMap[target] = @ \ {callback}, !.calls = {}]

\* unobserve(target, callback)
unobserve(R, target, callback) ==
    IF target \notin DOMAIN R.elementMap THEN [R EXCEPT !.calls = {}]
    ELSE IF R.elementMap[target] \ {callback} = {}
    THEN [R EXCEPT !.observed = @ \ {target},
                   !.elementMap = PageDel(@, target),
                   !.calls = {}]
    ELSE [R EXCEPT !.elementMap[target] = @ \ {callback}, !.calls = {}]

\* ------------------------------------------------------------ the library
\* A change: its hash, its author, the range of its operation counters, the
\* hashes it depends on and its one logical operation.
\*   init  d.meta = {...}; d.shapes = {...}  (two new map objects at the root)
\*   put   d.shapes[key] = val               (a new map object at shapes[key])
\*   del   delete d.shapes[key]
\* obj is the shapes object the operation is on (named by the hash of the init
\* change that made it); pred are the operations on that key the author saw.
Change(hash, kind, actor, startOp, nOps, deps, obj, key, val, pred, meta, shapes) ==
    [hash |-> hash, kind |-> kind, actor |-> actor, startOp |-> startOp,
     maxOp |-> startOp + nOps - 1, deps |-> deps, obj |-> obj, key |-> key,
     val |-> val, pred |-> pred, meta |-> meta, shapes |-> shapes]

HashesOf(cs) == {c.hash : c \in cs}

\* Automerge.init(): an empty document with a fresh random actor id.
AutomergeInit(actor) == [actor |-> actor, changes |-> {}, queue |-> {}]

\* The heads of a set of applied changes.
HeadsOf(cs) == {c.hash : c \in {x \in cs : \A e \in cs : x.hash \notin e.deps}}

getHeads(doc) == HeadsOf(doc.changes)

\* The changes of cs with a hash of H, and all they depend on.
RECURSIVE Ancestors(_, _)
AncestorsStep(cs, H, D) ==
    IF D \subseteq H THEN {x \in cs : x.hash \in H} ELSE Ancestors(cs, H \cup D)

Ancestors(cs, H) ==
    AncestorsStep(cs, H, UNION {c.deps : c \in {x \in cs : x.hash \in H}})

MaxOf(S) == CHOOSE n \in S : \A m \in S : m <= n

MaxOp(doc) ==
    IF doc.changes = {} THEN 0 ELSE MaxOf({c.maxOp : c \in doc.changes})

\* Operation ids are ordered by counter, then by actor id.
OpLess(a, b) ==
    \/ a.startOp < b.startOp
    \/ a.startOp = b.startOp /\ a.actor < b.actor

Greatest(S) == CHOOSE c \in S : \A e \in S \ {c} : OpLess(e, c)

\* The init changes of a document; each made a meta and a shapes object at
\* the root, and the ones of different replicas are concurrent.
InitChanges(doc) == {c \in doc.changes : c.kind = "init"}

\* The change whose objects doc.meta and doc.shapes resolve to.
RootWinner(doc) == Greatest(InitChanges(doc))

\* The operations of the document on one key of one shapes object.
OpsOn(doc, obj, key) ==
    {c \in doc.changes :
        \/ c.kind \in {"put", "del"} /\ c.obj = obj /\ c.key = key
        \/ c.kind = "init" /\ c.hash = obj /\ key \in DOMAIN c.shapes}

\* The values of a key that no operation of the document has overwritten.
Unseen(doc, ops) ==
    {c \in ops :
        /\ c.kind # "del"
        /\ c.hash \notin UNION {e.pred : e \in ops \ InitChanges(doc)}}

VisiblePuts(doc, obj, key) == Unseen(doc, OpsOn(doc, obj, key))

\* A read that gives only the width of a record a put wrote.
ValueAtWidthOnly(c, key) ==
    IF c.kind = "init" THEN c.shapes[key] ELSE [width |-> c.val.width]

ValueAt(c, key) == IF c.kind = "init" THEN c.shapes[key] ELSE c.val

\* The materialised document: what doc.meta and doc.shapes read as.
DocMeta(doc) == RootWinner(doc).meta

ShapesIn(doc, obj) ==
    [k \in {x \in LegacyIds : VisiblePuts(doc, obj, x) # {}} |->
        ValueAt(Greatest(VisiblePuts(doc, obj, k)), k)]

DocShapes(doc) == ShapesIn(doc, RootWinner(doc).hash)

Materialize(doc) ==
    IF InitChanges(doc) = {}
    THEN [hasMeta |-> FALSE, meta |-> NoMeta, shapes |-> <<>>]
    ELSE [hasMeta |-> TRUE, meta |-> DocMeta(doc), shapes |-> DocShapes(doc)]

\* Automerge.change(doc, d => { d.shapes[key] = val }): one change by the
\* document's actor on top of its heads.  The new map object replaces every
\* value of the key that the author sees.
PutChangeOn(hash, doc, key, val, obj) ==
    Change(hash, "put", doc.actor, MaxOp(doc) + 1, PutOps, getHeads(doc),
           obj, key, val, HashesOf(VisiblePuts(doc, obj, key)), NoMeta, <<>>)

PutChange(hash, doc, key, val) ==
    PutChangeOn(hash, doc, key, val, RootWinner(doc).hash)

\* Automerge.change(doc, d => { if (d.shapes[key]) delete d.shapes[key] }).
DelChangeOn(hash, doc, key, obj) ==
    Change(hash, "del", doc.actor, MaxOp(doc) + 1, DelOps, getHeads(doc),
           obj, key, NoShape, HashesOf(VisiblePuts(doc, obj, key)), NoMeta, <<>>)

DelChange(hash, doc, key) == DelChangeOn(hash, doc, key, RootWinner(doc).hash)

\* Automerge.change(Automerge.init(), d => { d.meta = meta; d.shapes = shapes }).
InitChange(hash, actor, meta, shapes) ==
    Change(hash, "init", actor, 1, InitOps + PutOps * Cardinality(DOMAIN shapes),
           {}, 0, "", NoShape, {}, meta, shapes)

\* A callback that makes no operation makes no change.
DeletesSomething(doc, key) == VisiblePuts(doc, RootWinner(doc).hash, key) # {}

\* The document after a new change of its own.
Commit(doc, c) == [doc EXCEPT !.changes = @ \cup {c}]

\* apply_changes: a change is applied once its dependencies are; until then
\* it waits in the queue.
RECURSIVE Drain(_, _)
DrainStep(applied, queue, ready) ==
    IF ready = {} THEN [changes |-> applied, queue |-> queue]
    ELSE Drain(applied \cup ready, queue \ ready)

Drain(applied, queue) ==
    DrainStep(applied, queue, {c \in queue : c.deps \subseteq HashesOf(applied)})

Drained(doc, r) == [doc EXCEPT !.changes = r.changes, !.queue = r.queue]

applyChanges(doc, cs) ==
    Drained(doc, Drain(doc.changes, (doc.queue \cup cs) \ doc.changes))

getMissingDeps(doc, heads) ==
    ((UNION {c.deps : c \in doc.queue} \cup heads) \ HashesOf(doc.changes))
        \ HashesOf(doc.queue)

\* get_changes(have_deps): the applied changes that are no ancestor of them.
getChanges(doc, haveDeps) == doc.changes \ Ancestors(doc.changes, haveDeps)

\* The Bloom filter of the changes since lastSync, taken as exact.
makeBloomFilter(doc, lastSync) ==
    [lastSync |-> lastSync, bloom |-> HashesOf(getChanges(doc, lastSync))]

RECURSIVE Dependents(_, _)
DependentsStep(S, cand, more) ==
    IF more = {} THEN S ELSE Dependents(S \cup more, cand)

Dependents(S, cand) ==
    DependentsStep(S, cand, {c \in cand \ S : c.deps \cap HashesOf(S) # {}})

ChangesToSendOf(doc, have, need, cand) ==
    Dependents({c \in cand : \A i \in DOMAIN have : c.hash \notin have[i].bloom}, cand)
        \cup {c \in doc.changes : c.hash \in need}

getChangesToSend(doc, have, need) ==
    IF have = <<>> THEN {c \in doc.changes : c.hash \in need}
    ELSE ChangesToSendOf(doc, have, need,
             getChanges(doc, UNION {have[i].lastSync : i \in DOMAIN have}))

\* Automerge.initSyncState()
initSyncState ==
    [sharedHeads |-> {}, lastSentHeads |-> {}, theirKnown |-> FALSE,
     theirHeads |-> {}, theirNeed |-> {}, theirHave |-> <<>>,
     sentHashes |-> {}, inFlight |-> FALSE, haveResponded |-> FALSE]

NoMessage == [heads |-> {}, need |-> {}, have |-> <<>>, changes |-> {}]

\* Automerge.generateSyncMessage(doc, syncState) -> [syncState, message | null]
\* The changes the peer lacks as far as its last message tells, less the ones
\* sent already.
ToSend(doc, st) ==
    IF st.theirKnown
    THEN {c \in getChangesToSend(doc, st.theirHave, st.theirNeed) :
              c.hash \notin st.sentHashes}
    ELSE {}

Generated(doc, st, ourHeads, ourNeed, toSend) ==
    IF /\ st.theirKnown
       /\ st.theirHave # <<>>
       /\ ~(st.theirHave[1].lastSync \subseteq HashesOf(doc.changes))
    THEN [state |-> st, some |-> TRUE,
          msg |-> [heads |-> ourHeads, need |-> {},
                   have |-> <<[lastSync |-> {}, bloom |-> {}]>>,
                   changes |-> {}]]
    ELSE IF /\ st.lastSentHeads = ourHeads
            /\ st.haveResponded
            /\ ((st.theirKnown /\ st.theirHeads = ourHeads /\ toSend = {})
                    \/ st.inFlight)
    THEN [state |-> st, some |-> FALSE, msg |-> NoMessage]
    ELSE [state |-> [st EXCEPT !.haveResponded = TRUE,
                               !.lastSentHeads = ourHeads,
                               !.sentHashes = @ \cup HashesOf(toSend),
                               !.inFlight = TRUE],
          some |-> TRUE,
          msg |-> [heads |-> ourHeads, need |-> ourNeed,
                   have |-> IF ourNeed \subseteq st.theirHeads
                            THEN <<makeBloomFilter(doc, st.sharedHeads)>> ELSE <<>>,
                   changes |-> toSend]]

\* Automerge.generateSyncMessage(doc, syncState) -> [syncState, message | null]
generateSyncMessage(doc, st) ==
    Generated(doc, st, getHeads(doc), getMissingDeps(doc, st.theirHeads),
              ToSend(doc, st))

\* advance_heads
advanceHeads(oldHeads, newHeads, oldShared) ==
    (newHeads \ oldHeads) \cup (oldShared \cap newHeads)

\* The third element of the triple Automerge.receiveSyncMessage returns.  In
\* @automerge/automerge it is the constant null: patches are delivered to a
\* patchCallback, which no caller in the repository passes.
NullPatch == [isNull |-> TRUE, patches |-> <<>>]

\* Automerge.receiveSyncMessage(doc, syncState, message)
\*     -> [doc, syncState, null]
Received(st, m, beforeHeads, newDoc, known) ==
    [doc |-> newDoc,
     state |-> [sharedHeads |->
                    IF known = m.heads THEN m.heads
                    ELSE known \cup
                         (IF m.changes = {} THEN st.sharedHeads
                          ELSE advanceHeads(beforeHeads, getHeads(newDoc),
                                            st.sharedHeads)),
                lastSentHeads |->
                    IF known = m.heads /\ m.heads = {} THEN {}
                    ELSE IF m.changes = {} /\ m.heads = beforeHeads
                    THEN m.heads ELSE st.lastSentHeads,
                theirKnown |-> TRUE,
                theirHeads |-> m.heads,
                theirNeed |-> m.need,
                theirHave |-> m.have,
                sentHashes |->
                    IF known = m.heads /\ m.heads = {} THEN {}
                    ELSE st.sentHashes \ HashesOf(Ancestors(newDoc.changes, known)),
                inFlight |-> FALSE,
                haveResponded |-> st.haveResponded],
     patch |-> NullPatch]

ReceivedInto(st, m, beforeHeads, newDoc) ==
    Received(st, m, beforeHeads, newDoc, m.heads \cap HashesOf(newDoc.changes))

\* Automerge.receiveSyncMessage(doc, syncState, message)
\*     -> [doc, syncState, null]
AutomergeReceiveSyncMessage(doc, st, m) ==
    ReceivedInto(st, m, getHeads(doc),
                 IF m.changes = {} THEN doc ELSE applyChanges(doc, m.changes))

\* Automerge.save(doc): the applied changes and the queued ones, without the
\* actor id.  Automerge.load(bytes): those changes under a fresh actor id.
AutomergeSave(doc) == [ok |-> TRUE, changes |-> doc.changes \cup doc.queue]

AutomergeLoad(binary, actor) ==
    applyChanges(AutomergeInit(actor), binary.changes)

\* ------------------------------------------------------- community-store.ts
\* A JavaScript Map as a function on the set of its keys.
MapSet(m, k, v) == [x \in DOMAIN m \cup {k} |-> IF x = k THEN v ELSE m[x]]

MapDel(m, k) == [x \in DOMAIN m \ {k} |-> m[x]]

EmptyMap == <<>>

\* The module's mutable state, threaded through the calls of one handler.
Store ==
    [communities |-> communities, peerSyncStates |-> peerSyncStates,
     saveTimers |-> saveTimers, pendingTimers |-> pendingTimers,
     timersCreated |-> timersCreated]

\* Files of STORAGE_DIR.
NoFile == [present |-> FALSE, ok |-> FALSE, changes |-> {}, meta |-> NoMeta,
           shapes |-> EmptyMap]

BinaryFile(binary) ==
    [present |-> TRUE, ok |-> binary.ok, changes |-> binary.changes,
     meta |-> NoMeta, shapes |-> EmptyMap]

JsonFile(ok, meta, shapes) ==
    [present |-> TRUE, ok |-> ok, changes |-> {}, meta |-> meta, shapes |-> shapes]

\* saveCommunity with the clearTimeout left out: timers stack.
saveCommunityNoClear(S, slug) ==
    IF slug \notin DOMAIN S.communities THEN S
    ELSE LET h == S.timersCreated + 1
         IN  [S EXCEPT !.pendingTimers = MapSet(@, h, slug),
                       !.saveTimers = MapSet(@, slug, h),
                       !.timersCreated = h]

\* saveCommunity with the saveTimers.set left out: the next call finds no
\* handle to clear.
saveCommunityNoRecord(S, slug) ==
    IF slug \notin DOMAIN S.communities THEN S
    ELSE LET cleared == IF slug \in DOMAIN S.saveTimers
                        THEN MapDel(S.pendingTimers, S.saveTimers[slug])
                        ELSE S.pendingTimers
             h == S.timersCreated + 1
         IN  [S EXCEPT !.pendingTimers = MapSet(cleared, h, slug),
                       !.timersCreated = h]

\* saveCommunity that clears the timers of every document.
saveCommunityClearsAll(S, slug) ==
    IF slug \notin DOMAIN S.communities THEN S
    ELSE LET h == S.timersCreated + 1
         IN  [S EXCEPT !.pendingTimers = MapSet(EmptyMap, h, slug),
                       !.saveTimers = MapSet(@, slug, h),
                       !.timersCreated = h]

\* saveCommunity(slug), up to its return: the timer callback is TimerFires.
saveCommunity(S, slug) ==
    IF slug \notin DOMAIN S.communities THEN S
    ELSE LET cleared == IF slug \in DOMAIN S.saveTimers
                        THEN MapDel(S.pendingTimers, S.saveTimers[slug])
                        ELSE S.pendingTimers
             h == S.timersCreated + 1
         IN  [S EXCEPT !.pendingTimers = MapSet(cleared, h, slug),
                       !.saveTimers = MapSet(@, slug, h),
                       !.timersCreated = h]

\* getPeerSyncState that makes a state with a fresh cursor on every call.
getPeerSyncStateFresh(tbl, slug, peerId, now) ==
    MapSet(tbl, slug,
        MapSet(IF slug \in DOMAIN tbl THEN tbl[slug] ELSE EmptyMap, peerId,
               [syncState |-> initSyncState, lastActivity |-> now]))

\* getPeerSyncState(slug, peerId): the table after the call; the state the
\* call returns is the entry of (slug, peerId) in it.
PeerTouched(t1, slug, peerId, now) ==
    MapSet(t1, slug,
        IF peerId \in DOMAIN t1[slug]
        THEN [t1[slug] EXCEPT ![peerId].lastActivity = now]
        ELSE MapSet(t1[slug], peerId,
                    [syncState |-> initSyncState, lastActivity |-> now]))

getPeerSyncState(tbl, slug, peerId, now) ==
    PeerTouched(IF slug \in DOMAIN tbl THEN tbl ELSE MapSet(tbl, slug, EmptyMap),
                slug, peerId, now)

\* removePeerSyncState with the test of the size left out.
removePeerSyncStateKeepsMap(tbl, slug, peerId) ==
    IF slug \notin DOMAIN tbl THEN tbl
    ELSE MapSet(tbl, slug, MapDel(tbl[slug], peerId))

\* removePeerSyncState(slug, peerId)
removePeerSyncState(tbl, slug, peerId) ==
    IF slug \notin DOMAIN tbl THEN tbl
    ELSE LET cp == MapDel(tbl[slug], peerId)
         IN  IF DOMAIN cp = {} THEN MapDel(tbl, slug) ELSE MapSet(tbl, slug, cp)

\* getCommunityPeers(slug)
getCommunityPeers(tbl, slug) ==
    IF slug \in DOMAIN tbl THEN DOMAIN tbl[slug] ELSE {}

\* peerState.syncState = st
SetSyncState(S, slug, peerId, st) ==
    [S EXCEPT !.peerSyncStates[slug][peerId].syncState = st]

\* A test that takes every reconciliation for one that changed the replica.
hasPatchesAlways(patch) == TRUE

\* const hasPatches = patch && patch.patches && patch.patches.length > 0
hasPatches(patch) == ~patch.isNull /\ Len(patch.patches) > 0

\* The fan-out loop of receiveSyncMessage over the peers of the table.
FanOutTargets(S, slug, peerId, hp) ==
    IF slug \in DOMAIN S.peerSyncStates /\ hp
    THEN DOMAIN S.peerSyncStates[slug] \ {peerId} ELSE {}

\* The steps of receiveSyncMessage, each given the value the step before it
\* computed.
\* The return value, and the sync states of the peers a message was
\* generated for (gens maps each of them to what generateSyncMessage gave).
SyncResult(S3, slug, g, gens) ==
    [store |-> [S3 EXCEPT !.peerSyncStates[slug] =
                   [q \in DOMAIN @ |->
                       IF q \in DOMAIN gens
                       THEN [@[q] EXCEPT !.syncState = gens[q].state]
                       ELSE @[q]]],
     hasResponse |-> g.some, response |-> g.msg,
     broadcastToPeers |-> [q \in {x \in DOMAIN gens : gens[x].some} |-> gens[q].msg]]

\* if (hasPatches) { for (const [otherPeerId, ...] of communityPeerStates) ... }
SyncFanOut(S3, slug, peerId, hp, g) ==
    SyncResult(S3, slug, g,
        [q \in FanOutTargets(S3, slug, peerId, hp) |->
            generateSyncMessage(S3.communities[slug],
                                S3.peerSyncStates[slug][q].syncState)])

\* A reply step that does not store the cursor reply generation returned.
SyncRepliedCursorKept(S2, slug, peerId, hp, g) ==
    SyncFanOut(S2, slug, peerId, hp, g)

\* peerState.syncState = nextSyncState
SyncReplied(S2, slug, peerId, hp, g) ==
    SyncFanOut(SetSyncState(S2, slug, peerId, g.state), slug, peerId, hp, g)

\* Automerge.generateSyncMessage(newDoc, peerState.syncState)
SyncReply(S2, slug, peerId, hp) ==
    SyncReplied(S2, slug, peerId, hp,
        generateSyncMessage(S2.communities[slug],
                            S2.peerSyncStates[slug][peerId].syncState))

\* if (hasPatches) { saveCommunity(slug) }
SyncSaved(S1, slug, peerId, hp) ==
    SyncReply(IF hp THEN saveCommunity(S1, slug) ELSE S1, slug, peerId, hp)

\* communities.set(slug, newDoc); peerState.syncState = newSyncState
SyncMerged(S, slug, peerId, r) ==
    SyncSaved(SetSyncState([S EXCEPT !.communities = MapSet(@, slug, r.doc)],
                           slug, peerId, r.state),
              slug, peerId, hasPatches(r.patch))

\* Automerge.receiveSyncMessage(doc, peerState.syncState, message)
SyncMerge(S, slug, peerId, message) ==
    SyncMerged(S, slug, peerId,
        AutomergeReceiveSyncMessage(S.communities[slug],
                                    S.peerSyncStates[slug][peerId].syncState,
                                    message))

\* A receiveSyncMessage that looks the sender's cursor up before the document.
receiveSyncMessageCursorFirst(S, slug, peerId, message, now) ==
    IF slug \notin DOMAIN S.communities
    THEN [store |-> [S EXCEPT !.peerSyncStates =
                        getPeerSyncState(@, slug, peerId, now)],
          hasResponse |-> FALSE, response |-> NoMessage,
          broadcastToPeers |-> EmptyMap]
    ELSE SyncMerge([S EXCEPT !.peerSyncStates =
                       getPeerSyncState(@, slug, peerId, now)],
                   slug, peerId, message)

\* receiveSyncMessage(slug, peerId, message)
\*     -> {response, broadcastToPeers} and the module state after the call.
receiveSyncMessage(S, slug, peerId, message, now) ==
    IF slug \notin DOMAIN S.communities
    THEN [store |-> S, hasResponse |-> FALSE, response |-> NoMessage,
          broadcastToPeers |-> EmptyMap]
    ELSE SyncMerge([S EXCEPT !.peerSyncStates =
                       getPeerSyncState(@, slug, peerId, now)],
                   slug, peerId, message)

\* receiveSyncMessage(slug, peerId, message) of a message that
\* Automerge.receiveSyncMessage cannot decode: the call throws after the
\* document was looked up and getPeerSyncState was called.
receiveSyncMessageRejected(S, slug, peerId, now) ==
    IF slug \notin DOMAIN S.communities THEN S
    ELSE [S EXCEPT !.peerSyncStates = getPeerSyncState(@, slug, peerId, now)]

\* peerState.syncState = nextSyncState; return message
GeneratedForPeer(S, slug, peerId, g) ==
    [store |-> SetSyncState(S, slug, peerId, g.state), some |-> g.some, msg |-> g.msg]

\* Automerge.generateSyncMessage(doc, peerState.syncState)
GenerateForPeer(S, slug, peerId) ==
    GeneratedForPeer(S, slug, peerId,
        generateSyncMessage(S.communities[slug],
                            S.peerSyncStates[slug][peerId].syncState))

\* generateSyncMessageForPeer(slug, peerId) -> message | null
generateSyncMessageForPeer(S, slug, peerId, now) ==
    IF slug \notin DOMAIN S.communities
    THEN [store |-> S, some |-> FALSE, msg |-> NoMessage]
    ELSE GenerateForPeer([S EXCEPT !.peerSyncStates =
                             getPeerSyncState(@, slug, peerId, now)],
                         slug, peerId)

\* updateShape with the saveCommunity call left out.
updateShapeNoSave(S, slug, shapeId, data, hash) ==
    IF slug \notin DOMAIN S.communities THEN S
    ELSE [S EXCEPT !.communities[slug] =
             Commit(@, PutChange(hash, @, shapeId, data))]

\* updateShape that schedules a save whether or not the document is resident.
updateShapeUnguarded(S, slug, shapeId, data, hash) ==
    LET h == S.timersCreated + 1
    IN  [S EXCEPT !.pendingTimers = MapSet(@, h, slug),
                  !.saveTimers = MapSet(@, slug, h),
                  !.timersCreated = h]

\* updateShape(slug, shapeId, data); hash is the hash the new change gets.
updateShape(S, slug, shapeId, data, hash) ==
    IF slug \notin DOMAIN S.communities THEN S
    ELSE LET doc == S.communities[slug]
             newDoc == Commit(doc, PutChange(hash, doc, shapeId, data))
         IN  saveCommunity([S EXCEPT !.communities = MapSet(@, slug, newDoc)], slug)

\* deleteShape(slug, shapeId)
deleteShape(S, slug, shapeId, hash) ==
    IF slug \notin DOMAIN S.communities THEN S
    ELSE LET doc == S.communities[slug]
             newDoc == IF DeletesSomething(doc, shapeId)
                       THEN Commit(doc, DelChange(hash, doc, shapeId)) ELSE doc
         IN  saveCommunity([S EXCEPT !.communities = MapSet(@, slug, newDoc)], slug)

\* jsonToAutomerge(data)
jsonToAutomerge(data, actor, hash) ==
    Commit(AutomergeInit(actor), InitChange(hash, actor, data.meta, data.shapes))

\* createCommunity that registers the document before its first change.
createCommunityBare(S, name, slug, actor, hash, now) ==
    saveCommunity([S EXCEPT !.communities = MapSet(@, slug, AutomergeInit(actor))],
                  slug)

\* createCommunity(name, slug), from communities.set on
createCommunity(S, name, slug, actor, hash, now) ==
    LET doc == Commit(AutomergeInit(actor),
                      InitChange(hash, actor, CommunityMeta(name, slug, now), <<>>))
    IN  saveCommunity([S EXCEPT !.communities = MapSet(@, slug, doc)], slug)

\* ----------------------------------------------------------------- index.ts
storeVars == <<communities, peerSyncStates, saveTimers, pendingTimers, timersCreated>>

clientVars == <<toServer, clients>>

Install(S) ==
    /\ communities' = S.communities
    /\ peerSyncStates' = S.peerSyncStates
    /\ saveTimers' = S.saveTimers
    /\ pendingTimers' = S.pendingTimers
    /\ timersCreated' = S.timersCreated

\* A handler ends: the module state and the frames written to the sockets.
InstallSent(r) == Install(r.store) /\ outbox' = r.outbox

Frame(type, msg, id, data) == [type |-> type, msg |-> msg, id |-> id, data |-> data]

SyncFrame(m) == Frame("sync", m, "", NoShape)

\* getClient(slug, peerId) is defined and its readyState is OPEN
Writable(slug, q) ==
    /\ slug \in DOMAIN communityClients
    /\ q \in DOMAIN communityClients[slug]
    /\ wsState[q] = "open"

\* A send that puts the frame ahead of the frames written before it.
wsSendAhead(box, states, q, frame) ==
    IF states[q] = "open" THEN [box EXCEPT ![q] = <<frame>> \o @] ELSE box

\* A send that writes to the socket whatever its readyState.
wsSendAlways(box, states, q, frame) == [box EXCEPT ![q] = Append(@, frame)]

\* ws.send(frame) on the socket of peer q, whose readyState is given by
\* states: nothing is sent on a socket that is not open.
wsSend(box, states, q, frame) ==
    IF states[q] = "open" THEN [box EXCEPT ![q] = Append(@, frame)] ELSE box

\* The frames still on the wire when a handler starts.  The frames of peers
\* that are not modelled further have left: nothing in the relay reads them.
Wire == IF DOMAIN clients = {} THEN [q \in DOMAIN outbox |-> <<>>] ELSE outbox

ActorsFree == (1..MaxActors) \ actorsUsed

TimersOf(slug) == {h \in DOMAIN pendingTimers : pendingTimers[h] = slug}

\* What the run has shown so far, kept for the properties:
\*   applied   the hashes that were ever applied to the replica of a slug
\*   muts      saveCommunity calls of the current burst of a slug (a burst
\*             starts with a call made while no timer of the slug is armed)
\*   fires     timer firings of the slug since its current burst began
\*   failed    a durable write has failed
Observe ==
    LET armed(s) == /\ s \in DOMAIN saveTimers'
                    /\ (s \notin DOMAIN saveTimers \/ saveTimers'[s] # saveTimers[s])
    IN  hist' = [hist EXCEPT
            !.applied = [s \in Slugs |->
                @[s] \cup IF s \in DOMAIN communities'
                          THEN HashesOf(communities'[s].changes) ELSE {}],
            !.muts = [s \in Slugs |->
                IF armed(s) THEN (IF TimersOf(s) = {} THEN 1 ELSE @[s] + 1) ELSE @[s]],
            !.fires = [s \in Slugs |->
                IF armed(s) /\ TimersOf(s) = {} THEN 0 ELSE @[s]]]

\* if (syncMessage) { ws.send(...) }
OpenSend(g, peerId, box, states) ==
    [store |-> g.store,
     outbox |-> IF g.some THEN wsSend(box, states, peerId, SyncFrame(g.msg)) ELSE box]

\* The callback websocket.open passes to loadCommunity(...).then, run with the
\* document the load resolved to (none: the load resolved to null).
OpenThen(S, loaded, slug, peerId, box, states) ==
    IF ~loaded THEN [store |-> S, outbox |-> box]
    ELSE OpenSend(generateSyncMessageForPeer(S, slug, peerId, clock),
                  peerId, box, states)

\* A loadCommunity call settles and its caller continues.
Settle(S, loaded, l) ==
    IF l.caller = "open" THEN OpenThen(S, loaded, l.slug, l.peer, Wire, wsState)
    ELSE [store |-> S, outbox |-> Wire]

\* A generator that hands out the id of the connection before again.
generatePeerIdAgain == IF peersCreated = 0 THEN 1 ELSE peersCreated

\* generatePeerId(): `peer-${Date.now()}-${random}`, an id no connection had.
generatePeerId == peersCreated + 1

\* fetch upgrades a request on /ws/<slug>, then websocket.open runs: the
\* socket is registered and loadCommunity is called.  A resident document
\* resolves the call at once; otherwise it is suspended at binaryFile.exists().
WsOpen(slug) ==
    /\ peersCreated < MaxPeers
    /\ LET p == generatePeerId
           clientsOfSlug == IF slug \in DOMAIN communityClients
                            THEN communityClients[slug] ELSE EmptyMap
           box == MapSet(Wire, p, <<>>)
           states == MapSet(wsState, p, "open")
       IN  /\ peersCreated' = peersCreated + 1
           /\ communityClients' = MapSet(communityClients, slug, MapSet(clientsOfSlug, p, p))
           /\ wsState' = states
           /\ wsSlug' = MapSet(wsSlug, p, slug)
           /\ toServer' = MapSet(toServer, p, <<>>)
           /\ IF slug \in DOMAIN communities
              THEN /\ InstallSent(OpenThen(Store, TRUE, slug, p, box, states))
                   /\ UNCHANGED <<loads, loadsStarted>>
              ELSE /\ loadsStarted < MaxLoads
                   /\ loadsStarted' = loadsStarted + 1
                   /\ loads' = loads \cup {[id |-> loadsStarted + 1, slug |-> slug,
                                            pc |-> "binExists", caller |-> "open",
                                            peer |-> p]}
                   /\ outbox' = box
                   /\ UNCHANGED storeVars
    /\ UNCHANGED <<clock, writes, disk>>
    /\ Observe
    /\ UNCHANGED <<apiVars, pageVars>>

\* fetch on a community subdomain, or GET /api/communities/<slug> of a
\* document that is not resident: loadCommunity is called and awaited.
HttpLoad(slug) ==
    /\ slug \notin DOMAIN communities
    /\ loadsStarted < MaxLoads
    /\ loadsStarted' = loadsStarted + 1
    /\ loads' = loads \cup {[id |-> loadsStarted + 1, slug |-> slug,
                             pc |-> "binExists", caller |-> "http", peer |-> 0]}
    /\ UNCHANGED <<hashesUsed, actorsUsed, clock, storeVars, communityClients, writes,
                   disk, peersCreated, wsState, wsSlug, outbox, clientVars>>
    /\ Observe
    /\ UNCHANGED <<apiVars, pageVars>>

Goto(l, pc) == loads' = (loads \ {l}) \cup {[l EXCEPT !.pc = pc]}

\* A load that goes to the legacy record without looking for the canonical one.
LoadBinExistsSkipped(l) ==
    /\ l.pc = "binExists"
    /\ Goto(l, "jsonExists")
    /\ UNCHANGED <<hashesUsed, actorsUsed, clock, storeVars, communityClients, writes,
                   disk, loadsStarted, peersCreated, wsState, wsSlug, outbox,
                   clientVars>>
    /\ Observe
    /\ UNCHANGED <<apiVars, pageVars>>

\* await binaryFile.exists() resolves
LoadBinExists(l) ==
    /\ l.pc = "binExists"
    /\ Goto(l, IF disk[l.slug].automerge.present THEN "binRead" ELSE "jsonExists")
    /\ UNCHANGED <<hashesUsed, actorsUsed, clock, storeVars, communityClients, writes,
                   disk, loadsStarted, peersCreated, wsState, wsSlug, outbox,
                   clientVars>>
    /\ Observe
    /\ UNCHANGED <<apiVars, pageVars>>

\* await binaryFile.arrayBuffer() resolves: Automerge.load, communities.set
\* and return doc, or the catch and on to the JSON fallback.
LoadBinRead(l) ==
    /\ l.pc = "binRead"
    /\ IF disk[l.slug].automerge.ok
       THEN \E a \in ActorsFree :
               /\ InstallSent(
                      Settle([Store EXCEPT !.communities =
                                 MapSet(@, l.slug,
                                        AutomergeLoad(disk[l.slug].automerge, a))],
                             TRUE, l))
               /\ actorsUsed' = actorsUsed \cup {a}
               /\ loads' = loads \ {l}
       ELSE /\ Goto(l, "jsonExists")
            /\ UNCHANGED <<storeVars, outbox, actorsUsed>>
    /\ UNCHANGED <<hashesUsed, clock, communityClients, writes, disk, loadsStarted,
                   peersCreated, wsState, wsSlug, clientVars>>
    /\ Observe
    /\ UNCHANGED <<apiVars, pageVars>>

\* await jsonFile.exists() resolves: on to the read, or return null.
LoadJsonExists(l) ==
    /\ l.pc = "jsonExists"
    /\ IF disk[l.slug].json.present
       THEN /\ Goto(l, "jsonRead")
            /\ UNCHANGED <<storeVars, outbox>>
       ELSE /\ InstallSent(Settle(Store, FALSE, l))
            /\ loads' = loads \ {l}
    /\ UNCHANGED <<hashesUsed, actorsUsed, clock, communityClients, writes, disk,
                   loadsStarted, peersCreated, wsState, wsSlug, clientVars>>
    /\ Observe
    /\ UNCHANGED <<apiVars, pageVars>>

\* await jsonFile.json() resolves: jsonToAutomerge, communities.set,
\* saveCommunity and return doc, or the catch and return null.
LoadJsonRead(l) ==
    /\ l.pc = "jsonRead"
    /\ IF disk[l.slug].json.ok
       THEN /\ hashesUsed < MaxChanges
            /\ timersCreated < MaxTimers
            /\ \E a \in ActorsFree :
                  /\ InstallSent(
                         Settle(saveCommunity(
                                    [Store EXCEPT !.communities =
                                        MapSet(@, l.slug,
                                               jsonToAutomerge(disk[l.slug].json, a,
                                                               hashesUsed + 1))],
                                    l.slug),
                                TRUE, l))
                  /\ actorsUsed' = actorsUsed \cup {a}
                  /\ hashesUsed' = hashesUsed + 1
       ELSE /\ InstallSent(Settle(Store, FALSE, l))
            /\ UNCHANGED <<actorsUsed, hashesUsed>>
    /\ loads' = loads \ {l}
    /\ UNCHANGED <<clock, communityClients, writes, disk, loadsStarted, peersCreated,
                   wsState, wsSlug, clientVars>>
    /\ Observe
    /\ UNCHANGED <<apiVars, pageVars>>

\* for (const [targetPeerId, targetMessage] of result.broadcastToPeers) ...
SyncBroadcast(slug, r, box1) ==
    [q \in DOMAIN box1 |->
        IF q \in DOMAIN r.broadcastToPeers /\ Writable(slug, q)
        THEN Append(box1[q], SyncFrame(r.broadcastToPeers[q]))
        ELSE box1[q]]

\* if (result.response) { ws.send(...) }, then the fan-out
SyncSend(slug, p, r) ==
    /\ Install(r.store)
    /\ outbox' = SyncBroadcast(slug, r,
                     IF r.hasResponse
                     THEN wsSend(Wire, wsState, p, SyncFrame(r.response)) ELSE Wire)

\* websocket.message, {type: "sync", data}: receiveSyncMessage, the reply on
\* the sender's socket, then the fan-out to the writable target sockets.
WsSync(p, m) ==
    /\ wsState[p] = "open"
    /\ SyncSend(wsSlug[p], p, receiveSyncMessage(Store, wsSlug[p], p, m, clock))
    /\ UNCHANGED <<actorsUsed, clock, communityClients, writes, disk, loads,
                   loadsStarted, peersCreated, wsState, wsSlug>>
    /\ Observe
    /\ UNCHANGED <<apiVars, pageVars>>

\* A relay that also writes to the sender and to the sockets of other slugs.
RelayAll(slug, p, frame) ==
    outbox' = [q \in DOMAIN outbox |->
                  IF wsState[q] = "open" THEN Append(Wire[q], frame) ELSE Wire[q]]

\* The relay of a legacy frame to the other writable sockets of the slug.
Relay(slug, p, frame) ==
    outbox' = [q \in DOMAIN outbox |->
                  IF q # p /\ Writable(slug, q) THEN Append(Wire[q], frame)
                  ELSE Wire[q]]

\* websocket.message, {type: "update", id, data}
WsUpdate(p, id, data) ==
    /\ wsState[p] = "open"
    /\ hashesUsed < MaxChanges
    /\ timersCreated < MaxTimers
    /\ Install(updateShape(Store, wsSlug[p], id, data, hashesUsed + 1))
    /\ hashesUsed' = IF wsSlug[p] \in DOMAIN communities
                     THEN hashesUsed + 1 ELSE hashesUsed
    /\ Relay(wsSlug[p], p, Frame("update", NoMessage, id, data))
    /\ UNCHANGED <<actorsUsed, clock, communityClients, writes, disk, loads,
                   loadsStarted, peersCreated, wsState, wsSlug, clientVars>>
    /\ Observe
    /\ UNCHANGED <<apiVars, pageVars>>

\* websocket.message, {type: "delete", id}
WsDelete(p, id) ==
    /\ wsState[p] = "open"
    /\ hashesUsed < MaxChanges
    /\ timersCreated < MaxTimers
    /\ Install(deleteShape(Store, wsSlug[p], id, hashesUsed + 1))
    /\ hashesUsed' = IF /\ wsSlug[p] \in DOMAIN communities
                        /\ DeletesSomething(communities[wsSlug[p]], id)
                     THEN hashesUsed + 1 ELSE hashesUsed
    /\ Relay(wsSlug[p], p, Frame("delete", NoMessage, id, NoShape))
    /\ UNCHANGED <<actorsUsed, clock, communityClients, writes, disk, loads,
                   loadsStarted, peersCreated, wsState, wsSlug, clientVars>>
    /\ Observe
    /\ UNCHANGED <<apiVars, pageVars>>

\* A handler that schedules a save whatever the frame.
MessageStoreSaves(S, slug, p, frame, hash, now) == saveCommunity(S, slug)

\* What websocket.message does to the module state, by the branch the frame
\* takes: only sync, update and delete frames reach community-store.
MessageStore(S, slug, p, frame, hash, now) ==
    CASE frame.type = "sync" -> receiveSyncMessage(S, slug, p, frame.msg, now).store
      [] frame.type = "update" -> updateShape(S, slug, frame.id, frame.data, hash)
      [] frame.type = "delete" -> deleteShape(S, slug, frame.id, hash)
      [] OTHER -> S

\* {...a, ...b}: the fields of b, and the fields of a that b lacks.
Spread(a, b) ==
    [k \in DOMAIN a \cup DOMAIN b |-> IF k \in DOMAIN b THEN b[k] ELSE a[k]]

\* The bodies a presence frame can carry; a sender may name a peer itself.
PresenceBodies ==
    {[type |-> "presence", cursor |-> 1],
     [type |-> "presence", cursor |-> 1, peerId |-> 0]}

\* websocket.message, {type: "ping", timestamp}
WsPing(p, ts) ==
    /\ wsState[p] = "open"
    /\ Install(MessageStore(Store, wsSlug[p], p, [type |-> "ping", timestamp |-> ts],
                            hashesUsed + 1, clock))
    /\ outbox' = wsSend(Wire, wsState, p, [type |-> "pong", timestamp |-> ts])
    /\ UNCHANGED <<hashesUsed, actorsUsed, clock, communityClients, writes, disk, loads,
                   loadsStarted, peersCreated, wsState, wsSlug, clientVars>>
    /\ Observe
    /\ UNCHANGED <<apiVars, pageVars>>

\* websocket.message, {type: "presence", ...}
WsPresence(p, msg) ==
    /\ wsState[p] = "open"
    /\ Install(MessageStore(Store, wsSlug[p], p, msg, hashesUsed + 1, clock))
    /\ Relay(wsSlug[p], p, Spread([type |-> "presence", peerId |-> p], msg))
    /\ UNCHANGED <<hashesUsed, actorsUsed, clock, communityClients, writes, disk, loads,
                   loadsStarted, peersCreated, wsState, wsSlug, clientVars>>
    /\ Observe
    /\ UNCHANGED <<apiVars, pageVars>>

\* The payloads websocket.message cannot decode: text that is not JSON, and
\* a sync frame whose data is not a sync message.
MalformedKinds == {"json", "sync"}

\* websocket.message of such a payload: JSON.parse or receiveSyncMessage
\* throws, and the catch of the handler logs the error.
WsMalformed(p, kind) ==
    /\ wsState[p] = "open"
    /\ Install(IF kind = "sync"
               THEN receiveSyncMessageRejected(Store, wsSlug[p], p, clock)
               ELSE Store)
    /\ outbox' = Wire
    /\ UNCHANGED <<hashesUsed, actorsUsed, clock, communityClients, writes, disk, loads,
                   loadsStarted, peersCreated, wsState, wsSlug, clientVars>>
    /\ Observe
    /\ UNCHANGED <<apiVars, pageVars>>

\* websocket.close
WsClose(p) ==
    /\ wsState[p] = "open"
    /\ LET slug == wsSlug[p]
           cl == MapDel(communityClients[slug], p)
       IN  /\ communityClients' = IF DOMAIN cl = {} THEN MapDel(communityClients, slug)
                                  ELSE MapSet(communityClients, slug, cl)
           /\ peerSyncStates' = removePeerSyncState(peerSyncStates, slug, p)
    /\ wsState' = [wsState EXCEPT ![p] = "closed"]
    /\ UNCHANGED <<hashesUsed, actorsUsed, clock, communities, saveTimers, pendingTimers,
                   timersCreated, writes, disk, loads, loadsStarted, peersCreated,
                   wsSlug, outbox>>
    /\ Observe
    /\ UNCHANGED <<apiVars, pageVars>>

\* The callback of the timer saveCommunity armed, up to its await: the
\* current replica is serialised and Bun.write is called.
TimerFires(h) ==
    /\ h \in DOMAIN pendingTimers
    /\ LET slug == pendingTimers[h]
       IN  /\ pendingTimers' = MapDel(pendingTimers, h)
           /\ writes' = IF slug \in DOMAIN communities
                        THEN writes \cup {[handle |-> h, slug |-> slug,
                                           binary |-> AutomergeSave(communities[slug])]}
                        ELSE writes
           /\ hist' = IF slug \in Slugs THEN [hist EXCEPT !.fires[slug] = @ + 1]
                      ELSE hist
    /\ UNCHANGED <<hashesUsed, actorsUsed, clock, communities, peerSyncStates,
                   saveTimers, timersCreated, communityClients, disk, loads,
                   loadsStarted, peersCreated, wsState, wsSlug, outbox, clientVars>>
    /\ UNCHANGED <<apiVars, pageVars>>

\* await Bun.write(path, binary) resolves: the record is overwritten.
WriteCompletes(w) ==
    /\ w \in writes
    /\ writes' = writes \ {w}
    /\ disk' = [disk EXCEPT ![w.slug].automerge = BinaryFile(w.binary)]
    /\ UNCHANGED <<hashesUsed, actorsUsed, clock, storeVars, communityClients, loads,
                   loadsStarted, peersCreated, wsState, wsSlug, outbox, clientVars,
                   hist>>
    /\ UNCHANGED <<apiVars, pageVars>>

\* A failed write that arms a timer to try again.
WriteFailsRetried(w) ==
    /\ w \in writes
    /\ writes' = writes \ {w}
    /\ hist' = [hist EXCEPT !.failed = TRUE]
    /\ Install(saveCommunity(Store, w.slug))
    /\ UNCHANGED <<hashesUsed, actorsUsed, clock, communityClients, disk,
                   loads, loadsStarted, peersCreated, wsState, wsSlug, outbox,
                   clientVars>>
    /\ UNCHANGED <<apiVars, pageVars>>

\* await Bun.write(path, binary) rejects: nothing catches it and nothing
\* retries; the record stays as it was.
WriteFails(w) ==
    /\ w \in writes
    /\ writes' = writes \ {w}
    /\ hist' = [hist EXCEPT !.failed = TRUE]
    /\ UNCHANGED <<hashesUsed, actorsUsed, clock, storeVars, communityClients, disk,
                   loads, loadsStarted, peersCreated, wsState, wsSlug, outbox,
                   clientVars>>
    /\ UNCHANGED <<apiVars, pageVars>>

\* ------------------------------------------- index.ts, POST /api/communities
MaxCreates == 2        \* create requests ever received

\* The bodies a create request can carry; "" is a field that is missing.
RequestNames == {"", "Plot"}

RequestSlugs == {"", "garden", "My Slug!"}

\* The characters of each slug, for the test of its format.
Spelling(slug) ==
    CASE slug = "garden" -> <<"g", "a", "r", "d", "e", "n">>
      [] slug = "orchard" -> <<"o", "r", "c", "h", "a", "r", "d">>
      [] slug = "My Slug!" -> <<"M", "y", " ", "S", "l", "u", "g", "!">>
      [] OTHER -> <<>>

LowerAlnumDash ==
    {"a", "b", "c", "d", "e", "f", "g", "h", "i", "j", "k", "l", "m", "n", "o", "p",
     "q", "r", "s", "t", "u", "v", "w", "x", "y", "z", "0", "1", "2", "3", "4", "5",
     "6", "7", "8", "9", "-"}

\* /^[a-z0-9-]+$/.test(slug)
SlugFormat(slug) ==
    /\ Len(Spelling(slug)) >= 1
    /\ \A i \in DOMAIN Spelling(slug) : Spelling(slug)[i] \in LowerAlnumDash

\* communityExists that looks at STORAGE_DIR only.
communityExistsOnDisk(slug) ==
    /\ slug \in DOMAIN disk
    /\ (disk[slug].automerge.present \/ disk[slug].json.present)

\* communityExists(slug), were it to run and finish in the current state.
communityExists(slug) ==
    \/ slug \in DOMAIN communities
    \/ /\ slug \in DOMAIN disk
       /\ (disk[slug].automerge.present \/ disk[slug].json.present)

\* The validation with the test of the slug's format left out.
ValidCreateNoFormat(name, slug) == name # "" /\ slug # ""

\* if (!name || !slug) ...; if (!/^[a-z0-9-]+$/.test(slug)) ...
ValidCreate(name, slug) == name # "" /\ slug # "" /\ SlugFormat(slug)

Reply(status, slug) == [status |-> status, slug |-> slug]

RequestsSeen == Cardinality(DOMAIN replies) + Cardinality(creates)

\* The request arrives and its body is read: the two validations, then
\* communityExists(slug), which answers at once for a resident document and
\* is suspended at binaryFile.exists() otherwise.
CreateRequest(name, slug) ==
    /\ RequestsSeen < MaxCreates
    /\ IF ~ValidCreate(name, slug)
       THEN /\ replies' = MapSet(replies, RequestsSeen + 1, Reply(400, slug))
            /\ UNCHANGED creates
       ELSE IF slug \in DOMAIN communities
       THEN /\ replies' = MapSet(replies, RequestsSeen + 1, Reply(409, slug))
            /\ UNCHANGED creates
       ELSE /\ creates' = creates \cup {[id |-> RequestsSeen + 1, name |-> name,
                                         slug |-> slug, pc |-> "binExists"]}
            /\ UNCHANGED replies
    /\ UNCHANGED <<hashesUsed, actorsUsed, clock, storeVars, communityClients, writes,
                   disk, loads, loadsStarted, peersCreated, wsState, wsSlug, outbox,
                   clientVars>>
    /\ Observe
    /\ UNCHANGED pageVars

\* communityExists: await binaryFile.exists() resolves.
CreateBinExists(r) ==
    /\ r.pc = "binExists"
    /\ IF disk[r.slug].automerge.present
       THEN /\ replies' = MapSet(replies, r.id, Reply(409, r.slug))
            /\ creates' = creates \ {r}
       ELSE /\ creates' = (creates \ {r}) \cup {[r EXCEPT !.pc = "jsonExists"]}
            /\ UNCHANGED replies
    /\ UNCHANGED <<hashesUsed, actorsUsed, clock, storeVars, communityClients, writes,
                   disk, loads, loadsStarted, peersCreated, wsState, wsSlug, outbox,
                   clientVars>>
    /\ Observe
    /\ UNCHANGED pageVars

\* communityExists: await jsonFile.exists() resolves; when no record exists
\* the handler goes on to createCommunity(name, slug) and answers.
CreateJsonExists(r) ==
    /\ r.pc = "jsonExists"
    /\ IF disk[r.slug].json.present
       THEN /\ replies' = MapSet(replies, r.id, Reply(409, r.slug))
            /\ UNCHANGED <<hashesUsed, actorsUsed, storeVars>>
       ELSE /\ hashesUsed < MaxChanges
            /\ timersCreated < MaxTimers
            /\ \E a \in ActorsFree :
                  /\ Install(createCommunity(Store, r.name, r.slug, a,
                                             hashesUsed + 1, clock))
                  /\ actorsUsed' = actorsUsed \cup {a}
            /\ hashesUsed' = hashesUsed + 1
            /\ replies' = MapSet(replies, r.id, Reply(200, r.slug))
    /\ creates' = creates \ {r}
    /\ UNCHANGED <<clock, communityClients, writes, disk, loads, loadsStarted,
                   peersCreated, wsState, wsSlug, outbox, clientVars>>
    /\ Observe
    /\ UNCHANGED pageVars

\* ------------------------------------------------- the store and its peers
\* The relay driven by peers that are not modelled further: any WebSocket
\* client may send any well-formed frame.
RawActor(p) == MaxActors + p

\* The documents a peer can hold: the ancestors of changes of the canonical
\* replica, with the replica's root and every change of the peer itself.
RawDocs(doc, p) ==
    {[actor |-> RawActor(p), changes |-> cs, queue |-> {}] :
        cs \in {x \in {Ancestors(doc.changes, H) : H \in SUBSET HashesOf(doc.changes)} :
                   /\ \E c \in x : c.kind = "init"
                   /\ \A c \in doc.changes : c.actor = RawActor(p) => c \in x}}

CarryMessage(c) == [heads |-> {c.hash}, need |-> {}, have |-> <<>>, changes |-> {c}]

RequestMessage(heads) ==
    [heads |-> heads, need |-> {}, have |-> <<[lastSync |-> {}, bloom |-> {}]>>,
     changes |-> {}]

\* The changes a peer can author next.
RawNewChanges(doc, p) ==
    UNION {{PutChange(hashesUsed + 1, b, k, ShapeData(k, w)) : k \in ShapeIds, w \in Widths}
           \cup {DelChange(hashesUsed + 1, b, k) :
                    k \in {x \in ShapeIds : DeletesSomething(b, x)}}
           : b \in RawDocs(doc, p)}

\* Frames that carry changes the replica already has, and plain requests.
RawKnownMessages(slug) ==
    IF slug \in DOMAIN communities
    THEN {CarryMessage(c) : c \in communities[slug].changes}
         \cup {RequestMessage({}), RequestMessage(getHeads(communities[slug]))}
    ELSE {RequestMessage({})}

RawOpen(slug) == WsOpen(slug) /\ UNCHANGED <<hashesUsed, actorsUsed, clients>>

\* A peer sends a change it has just made.
RawSyncNew(p) ==
    /\ p \in DOMAIN wsState
    /\ wsSlug[p] \in DOMAIN communities
    /\ hashesUsed < MaxChanges
    /\ \E c \in RawNewChanges(communities[wsSlug[p]], p) : WsSync(p, CarryMessage(c))
    /\ hashesUsed' = hashesUsed + 1
    /\ UNCHANGED clientVars

\* A peer sends changes again, or asks for the document.
RawSyncKnown(p) ==
    /\ p \in DOMAIN wsState
    /\ \E m \in RawKnownMessages(wsSlug[p]) : WsSync(p, m)
    /\ UNCHANGED <<hashesUsed, clientVars>>

RawUpdate(p) ==
    /\ p \in DOMAIN wsState
    /\ \E id \in ShapeIds, w \in Widths : WsUpdate(p, id, ShapeData(id, w))

RawDelete(p) ==
    /\ p \in DOMAIN wsState
    /\ \E id \in ShapeIds : WsDelete(p, id)

RawClose(p) == p \in DOMAIN wsState /\ WsClose(p) /\ UNCHANGED clientVars

RawMalformed(p) ==
    /\ p \in DOMAIN wsState
    /\ \E kind \in MalformedKinds : WsMalformed(p, kind)

RawPing(p) == p \in DOMAIN wsState /\ WsPing(p, 1)

RawPresence(p) ==
    /\ p \in DOMAIN wsState
    /\ \E msg \in PresenceBodies : WsPresence(p, msg)

\* The records STORAGE_DIR can hold when the process starts: what an earlier
\* run saved, or a legacy JSON record.  The earlier run drew RootActor.
RootActor == 2

SavedRoot == InitChange(1, RootActor, CommunityMeta("Garden", "garden", 0), <<>>)

StartDisks ==
    {[automerge |-> BinaryFile([ok |-> TRUE, changes |-> {SavedRoot}]), json |-> NoFile],
     [automerge |-> NoFile,
      json |-> JsonFile(TRUE, CommunityMeta("Garden", "garden", 0),
                        [k \in {"s1"} |-> ShapeData("s1", 10)])],
     [automerge |-> NoFile, json |-> NoFile]}

InitHist ==
    [applied |-> [s \in Slugs |-> {}], muts |-> [s \in Slugs |-> 0],
     fires |-> [s \in Slugs |-> 0], failed |-> FALSE]

\* The process has started: every table is empty.
Init ==
    /\ hashesUsed = 1
    /\ actorsUsed = {RootActor}
    /\ clock = 1
    /\ communities = EmptyMap
    /\ peerSyncStates = EmptyMap
    /\ saveTimers = EmptyMap
    /\ communityClients = EmptyMap
    /\ pendingTimers = EmptyMap
    /\ timersCreated = 0
    /\ writes = {}
    /\ disk \in [Slugs -> StartDisks]
    /\ loads = {}
    /\ loadsStarted = 0
    /\ peersCreated = 0
    /\ wsState = EmptyMap
    /\ wsSlug = EmptyMap
    /\ outbox = EmptyMap
    /\ toServer = EmptyMap
    /\ clients = EmptyMap
    /\ hist = InitHist
    /\ creates = {}
    /\ replies = EmptyMap
    /\ resize = NewResizeManager

\* The relay, its loads and its connections.
Next ==
    \/ \E slug \in Slugs : RawOpen(slug)
    \/ \E slug \in Slugs : HttpLoad(slug)
    \/ \E l \in loads : LoadBinExists(l)
    \/ \E l \in loads : LoadBinRead(l)
    \/ \E l \in loads : LoadJsonExists(l)
    \/ \E l \in loads : LoadJsonRead(l)
    \/ \E p \in 1..MaxPeers : RawSyncNew(p)
    \/ \E p \in 1..MaxPeers : RawClose(p)

Spec == Init /\ [][Next]_vars

\* The store and its debounced persistence.
NextSave ==
    \/ \E slug \in Slugs : RawOpen(slug)
    \/ \E l \in loads : LoadBinExists(l)
    \/ \E l \in loads : LoadBinRead(l)
    \/ \E l \in loads : LoadJsonExists(l)
    \/ \E l \in loads : LoadJsonRead(l)
    \/ \E p \in 1..MaxPeers : RawSyncNew(p)
    \/ \E p \in 1..MaxPeers : RawUpdate(p)
    \/ \E p \in 1..MaxPeers : RawDelete(p)
    \/ \E h \in 1..MaxTimers : TimerFires(h)
    \/ \E w \in writes : WriteCompletes(w)
    \/ \E w \in writes : WriteFails(w)

SpecSave == Init /\ [][NextSave]_vars

\* The store with its create requests.
NextCreate ==
    \/ \E name \in RequestNames, slug \in RequestSlugs : CreateRequest(name, slug)
    \/ \E r \in creates : CreateBinExists(r)
    \/ \E r \in creates : CreateJsonExists(r)
    \/ \E slug \in Slugs : RawOpen(slug)
    \/ \E l \in loads : LoadBinExists(l)
    \/ \E l \in loads : LoadBinRead(l)
    \/ \E l \in loads : LoadJsonExists(l)
    \/ \E l \in loads : LoadJsonRead(l)
    \/ \E p \in 1..MaxPeers : RawSyncNew(p)
    \/ \E p \in 1..MaxPeers : RawUpdate(p)
    \/ \E p \in 1..MaxPeers : RawDelete(p)

SpecCreate == Init /\ [][NextCreate]_vars

LegacyUpdate(p) ==
    /\ p \in DOMAIN wsState
    /\ \E id \in LegacyIds, w \in Widths : WsUpdate(p, id, ShapeData(id, w))

LegacyDelete(p) ==
    /\ p \in DOMAIN wsState
    /\ \E id \in LegacyIds : WsDelete(p, id)

\* The store under legacy frames only.
NextShapes ==
    \/ \E slug \in Slugs : RawOpen(slug)
    \/ \E l \in loads : LoadBinExists(l)
    \/ \E l \in loads : LoadBinRead(l)
    \/ \E l \in loads : LoadJsonExists(l)
    \/ \E l \in loads : LoadJsonRead(l)
    \/ \E p \in 1..MaxPeers : LegacyUpdate(p)
    \/ \E p \in 1..MaxPeers : LegacyDelete(p)
    \/ \E h \in 1..MaxTimers : TimerFires(h)
    \/ \E w \in writes : WriteCompletes(w)

SpecShapes == Init /\ [][NextShapes]_vars

\* The records STORAGE_DIR can hold beside those of StartDisks: a legacy
\* record next to the canonical one it was migrated to, and records that
\* cannot be read (a file cut short, or one that is not JSON).
LegacyRecord ==
    JsonFile(TRUE, CommunityMeta("Garden", "garden", 0),
             [k \in {"s1"} |-> ShapeData("s1", 10)])

LoadDisks ==
    StartDisks
    \cup {[automerge |-> BinaryFile([ok |-> TRUE, changes |-> {SavedRoot}]),
           json |-> LegacyRecord],
          [automerge |-> BinaryFile([ok |-> FALSE, changes |-> {}]),
           json |-> LegacyRecord],
          [automerge |-> NoFile, json |-> JsonFile(FALSE, NoMeta, EmptyMap)]}

InitLoad ==
    /\ hashesUsed = 1
    /\ actorsUsed = {RootActor}
    /\ clock = 1
    /\ communities = EmptyMap
    /\ peerSyncStates = EmptyMap
    /\ saveTimers = EmptyMap
    /\ communityClients = EmptyMap
    /\ pendingTimers = EmptyMap
    /\ timersCreated = 0
    /\ writes = {}
    /\ disk \in [Slugs -> LoadDisks]
    /\ loads = {}
    /\ loadsStarted = 0
    /\ peersCreated = 0
    /\ wsState = EmptyMap
    /\ wsSlug = EmptyMap
    /\ outbox = EmptyMap
    /\ toServer = EmptyMap
    /\ clients = EmptyMap
    /\ hist = InitHist
    /\ creates = {}
    /\ replies = EmptyMap
    /\ resize = NewResizeManager

\* The relay and its loads over every kind of record.
NextLoad ==
    \/ \E slug \in Slugs : RawOpen(slug)
    \/ \E slug \in Slugs : HttpLoad(slug)
    \/ \E l \in loads : LoadBinExists(l)
    \/ \E l \in loads : LoadBinRead(l)
    \/ \E l \in loads : LoadJsonExists(l)
    \/ \E l \in loads : LoadJsonRead(l)
    \/ \E p \in 1..MaxPeers : RawSyncNew(p)
    \/ \E p \in 1..MaxPeers : RawMalformed(p)
    \/ \E p \in 1..MaxPeers : RawClose(p)

SpecLoad == InitLoad /\ [][NextLoad]_vars

\* The slugs sockets are opened on: the saved document and one more, of
\* which STORAGE_DIR holds nothing.
Rooms == Slugs \cup {"orchard"}

InitRooms ==
    /\ hashesUsed = 1
    /\ actorsUsed = {RootActor}
    /\ clock = 1
    /\ communities = EmptyMap
    /\ peerSyncStates = EmptyMap
    /\ saveTimers = EmptyMap
    /\ communityClients = EmptyMap
    /\ pendingTimers = EmptyMap
    /\ timersCreated = 0
    /\ writes = {}
    /\ disk = [s \in Rooms |->
                  IF s \in Slugs
                  THEN [automerge |-> BinaryFile([ok |-> TRUE, changes |-> {SavedRoot}]),
                        json |-> NoFile]
                  ELSE [automerge |-> NoFile, json |-> NoFile]]
    /\ loads = {}
    /\ loadsStarted = 0
    /\ peersCreated = 0
    /\ wsState = EmptyMap
    /\ wsSlug = EmptyMap
    /\ outbox = EmptyMap
    /\ toServer = EmptyMap
    /\ clients = EmptyMap
    /\ hist = InitHist
    /\ creates = {}
    /\ replies = EmptyMap
    /\ resize = NewResizeManager

\* The relay of sockets on two slugs, with presence and keep-alive frames.
NextPresence ==
    \/ \E slug \in Rooms : RawOpen(slug)
    \/ \E l \in loads : LoadBinExists(l)
    \/ \E l \in loads : LoadBinRead(l)
    \/ \E l \in loads : LoadJsonExists(l)
    \/ \E p \in 1..MaxPeers : RawSyncNew(p)
    \/ \E p \in 1..MaxPeers : RawUpdate(p)
    \/ \E p \in 1..MaxPeers : RawPing(p)
    \/ \E p \in 1..MaxPeers : RawPresence(p)
    \/ \E p \in 1..MaxPeers : RawClose(p)

SpecPresence == InitRooms /\ [][NextPresence]_vars

\* The process after a first request has loaded the saved document.
ServerActor == 4

InitResident ==
    /\ hashesUsed = 1
    /\ actorsUsed = {RootActor, ServerActor}
    /\ clock = 1
    /\ communities =
           [s \in Slugs |-> AutomergeLoad([ok |-> TRUE, changes |-> {SavedRoot}],
                                          ServerActor)]
    /\ peerSyncStates = EmptyMap
    /\ saveTimers = EmptyMap
    /\ communityClients = EmptyMap
    /\ pendingTimers = EmptyMap
    /\ timersCreated = 0
    /\ writes = {}
    /\ disk = [s \in Slugs |->
                  [automerge |-> BinaryFile([ok |-> TRUE, changes |-> {SavedRoot}]),
                   json |-> NoFile]]
    /\ loads = {}
    /\ loadsStarted = 0
    /\ peersCreated = 0
    /\ wsState = EmptyMap
    /\ wsSlug = EmptyMap
    /\ outbox = EmptyMap
    /\ toServer = EmptyMap
    /\ clients = EmptyMap
    /\ hist = [InitHist EXCEPT !.applied = [s \in Slugs |-> {SavedRoot.hash}]]
    /\ creates = {}
    /\ replies = EmptyMap
    /\ resize = NewResizeManager

\* Two documents side by side: the saved one, and a second one of which
\* STORAGE_DIR holds a legacy record or nothing at all.
OrchardRecord ==
    JsonFile(TRUE, CommunityMeta("Orchard", "orchard", 0),
             [k \in {"s1"} |-> ShapeData("s1", 20)])

InitTwo ==
    /\ hashesUsed = 1
    /\ actorsUsed = {RootActor}
    /\ clock = 1
    /\ communities = EmptyMap
    /\ peerSyncStates = EmptyMap
    /\ saveTimers = EmptyMap
    /\ communityClients = EmptyMap
    /\ pendingTimers = EmptyMap
    /\ timersCreated = 0
    /\ writes = {}
    /\ \E legacy \in {OrchardRecord, NoFile} :
          disk = [s \in Rooms |->
                     IF s \in Slugs
                     THEN [automerge |->
                               BinaryFile([ok |-> TRUE, changes |-> {SavedRoot}]),
                           json |-> NoFile]
                     ELSE [automerge |-> NoFile, json |-> legacy]]
    /\ loads = {}
    /\ loadsStarted = 0
    /\ peersCreated = 0
    /\ wsState = EmptyMap
    /\ wsSlug = EmptyMap
    /\ outbox = EmptyMap
    /\ toServer = EmptyMap
    /\ clients = EmptyMap
    /\ hist = InitHist
    /\ creates = {}
    /\ replies = EmptyMap
    /\ resize = NewResizeManager

\* No loadCommunity and no communityExists call is suspended.
StorageIdle == loads = {} /\ creates = {}

\* A socket on each document: the first on the saved one.
NextRoom == IF peersCreated = 0 THEN "garden" ELSE "orchard"

\* Every handler of the server, on either document; requests are taken one
\* after the other, while timers fire and their writes fail beside them.
NextIsolation ==
    \/ \E slug \in Rooms : StorageIdle /\ slug = NextRoom /\ RawOpen(slug)
    \/ \E l \in loads : LoadBinExists(l)
    \/ \E l \in loads : LoadBinRead(l)
    \/ \E l \in loads : LoadJsonExists(l)
    \/ \E l \in loads : LoadJsonRead(l)
    \/ \E p \in 1..MaxPeers : StorageIdle /\ RawSyncNew(p)
    \/ \E p \in 1..MaxPeers : StorageIdle /\ RawUpdate(p)
    \/ \E p \in 1..MaxPeers : StorageIdle /\ RawDelete(p)
    \/ \E p \in 1..MaxPeers : StorageIdle /\ RawPing(p)
    \/ \E p \in 1..MaxPeers : StorageIdle /\ RawPresence(p)
    \/ \E p \in 1..MaxPeers : StorageIdle /\ RawMalformed(p)
    \/ \E p \in 1..MaxPeers : StorageIdle /\ RawClose(p)
    \/ \E slug \in Rooms :
          StorageIdle /\ RequestsSeen < 1 /\ CreateRequest("Plot", slug)
    \/ \E r \in creates : CreateBinExists(r)
    \/ \E r \in creates : CreateJsonExists(r)
    \/ \E h \in 1..MaxTimers : TimerFires(h)
    \/ \E w \in writes : WriteFails(w)

SpecIsolation == InitTwo /\ [][NextIsolation]_vars

\* The reconciliation step of a resident document.
NextRelay ==
    \/ \E slug \in Slugs : RawOpen(slug)
    \/ \E p \in 1..MaxPeers : RawSyncNew(p)
    \/ \E p \in 1..MaxPeers : RawSyncKnown(p)
    \/ \E p \in 1..MaxPeers : RawClose(p)

SpecRelay == InitResident /\ [][NextRelay]_vars

\* --------------------------------------- lib/community-sync.ts (the client)
MaxClients == 2        \* CommunitySync instances ever constructed
MaxSyncChanges == 4    \* changes ever authored where clients join late
MaxEditChanges == 5    \* changes ever authored where two clients edit

maxReconnectAttempts == 5    \* #maxReconnectAttempts
reconnectDelay == 1000       \* #reconnectDelay, in milliseconds

\* new CommunitySync(slug): the constructor makes the document's first change
\* itself.  canonAtConnect notes, for the properties, the shapes the canonical
\* replica showed when the server accepted the socket.  Besides the fields of
\* the class the record keeps what the browser holds for the instance:
\*   ws, readyState   the socket in #ws (the peer id the server gave it, 0
\*                    until the server has accepted it) and its readyState;
\*                    "none" when #ws is null
\*   timers           the delays of the setTimeout calls that have not fired
\*   closing          the sockets closed by disconnect() whose close event
\*                    has not been dispatched yet
\*   replaced         how many sockets connect() has dropped from #ws while
\*                    they were still connecting
CommunitySync(slug, actor, hash, now) ==
    [communitySlug |-> slug,
     doc |-> Commit(AutomergeInit(actor),
                    InitChange(hash, actor, CommunityMeta(slug, slug, now), <<>>)),
     syncState |-> initSyncState,
     ws |-> 0,
     readyState |-> "none",
     reconnectAttempts |-> 0,
     timers |-> <<>>,
     closing |-> <<>>,
     replaced |-> 0,
     canonAtConnect |-> <<>>]

\* A #send that loses every frame.
clientSendDropped(cl, box, frame) == box

\* #send(message): dropped unless the socket is open.
clientSend(cl, box, frame) ==
    IF cl.ws # 0 /\ cl.readyState = "open"
    THEN [box EXCEPT ![cl.ws] = Append(@, frame)] ELSE box

\* this.#syncState = nextSyncState; if (message) { this.#send(...) }
SendGenerated(cl1, box, g) ==
    [client |-> cl1,
     toServer |-> IF g.some THEN clientSend(cl1, box, SyncFrame(g.msg)) ELSE box]

Generate(cl, box, g) == SendGenerated([cl EXCEPT !.syncState = g.state], box, g)

\* #requestSync()
requestSync(cl, box) == Generate(cl, box, generateSyncMessage(cl.doc, cl.syncState))

\* #syncToServer()
syncToServer(cl, box) == Generate(cl, box, generateSyncMessage(cl.doc, cl.syncState))

\* this.#doc = result[0]; this.#syncState = result[1]; then the response
Applied(cl, box, r) ==
    Generate([cl EXCEPT !.doc = r.doc, !.syncState = r.state], box,
             generateSyncMessage(r.doc, r.state))

\* #applySyncMessage(message); the patches go to the DOM, which is not part
\* of the state here.
applySyncMessage(cl, box, m) ==
    Applied(cl, box, AutomergeReceiveSyncMessage(cl.doc, cl.syncState, m))

\* #handleMessage(data): the switch has a case for sync frames; presence
\* frames raise an event and every other frame is ignored.
handleMessage(cl, box, frame) ==
    IF frame.type = "sync" THEN applySyncMessage(cl, box, frame.msg)
    ELSE [client |-> cl, toServer |-> box]

serverVars ==
    <<clock, communities, peerSyncStates, saveTimers, communityClients, pendingTimers,
      timersCreated, writes, disk, loads, loadsStarted, peersCreated, wsState, wsSlug>>

\* A client method returns: the instance and the frames it has sent.
ClientDone(c, r) ==
    /\ clients' = [clients EXCEPT ![c] = r.client]
    /\ toServer' = r.toServer

\* new CommunitySync(slug) and connect(wsUrl); the server accepts the socket
\* and runs websocket.open.  The client's onopen comes later.
ClientConnect(slug) ==
    /\ Cardinality(DOMAIN clients) < MaxClients
    /\ hashesUsed < MaxSyncChanges
    /\ \E a \in ActorsFree :
          LET c == Cardinality(DOMAIN clients) + 1
              cl == CommunitySync(slug, a, hashesUsed + 1, clock)
          IN  /\ clients' = MapSet(clients, c,
                                   [cl EXCEPT !.ws = generatePeerId,
                                              !.readyState = "connecting",
                                              !.canonAtConnect =
                                                  IF slug \in DOMAIN communities
                                                  THEN DocShapes(communities[slug])
                                                  ELSE <<>>])
              /\ actorsUsed' = actorsUsed \cup {a}
    /\ hashesUsed' = hashesUsed + 1
    /\ WsOpen(slug)

\* ws.onopen
ClientOnOpen(c) ==
    /\ clients[c].readyState = "connecting"
    /\ clients[c].ws # 0
    /\ ClientDone(c, requestSync([clients[c] EXCEPT !.readyState = "open",
                                                    !.reconnectAttempts = 0],
                                 toServer))
    /\ UNCHANGED <<serverVars, hashesUsed, actorsUsed, outbox, hist>>
    /\ UNCHANGED <<apiVars, pageVars>>

\* An #attemptReconnect that never gives up.
attemptReconnectUnbounded(cl) ==
    [cl EXCEPT !.reconnectAttempts = @ + 1,
               !.timers = Append(@, reconnectDelay * 2 ^ cl.reconnectAttempts)]

\* #attemptReconnect(wsUrl)
attemptReconnect(cl) ==
    IF cl.reconnectAttempts >= maxReconnectAttempts THEN cl
    ELSE [cl EXCEPT !.reconnectAttempts = @ + 1,
                    !.timers = Append(@, reconnectDelay * 2 ^ cl.reconnectAttempts)]

\* connect(wsUrl): nothing when the socket in #ws is open; otherwise a new
\* socket takes the place of the one in #ws, which is still connecting, has
\* closed, or is absent.
connect(cl) ==
    IF cl.readyState = "open" THEN cl
    ELSE [cl EXCEPT !.ws = 0, !.readyState = "connecting",
                    !.replaced = IF cl.readyState = "connecting" THEN @ + 1 ELSE @]

\* disconnect(): if (this.#ws) { this.#ws.close(); this.#ws = null; }.  close()
\* on a socket that is connecting or open starts its closing, and the close
\* event comes later; the handlers stay on the socket.
disconnect(cl) ==
    IF cl.readyState = "none" THEN cl
    ELSE [cl EXCEPT !.ws = 0, !.readyState = "none",
                    !.closing = IF cl.readyState \in {"connecting", "open"}
                                THEN Append(@, cl.ws) ELSE @]

\* The client steps below leave the server as it is.
ClientOnly(c, cl) ==
    /\ clients' = [clients EXCEPT ![c] = cl]
    /\ UNCHANGED <<serverVars, hashesUsed, actorsUsed, outbox, toServer, hist>>
    /\ UNCHANGED <<apiVars, pageVars>>

\* The server's end of socket p closes with the client's, if the server had
\* accepted it; the client's record becomes cl.
ClosedWith(c, p, cl) ==
    IF p # 0
    THEN /\ WsClose(p)
         /\ clients' = [clients EXCEPT ![c] = cl]
         /\ UNCHANGED toServer
    ELSE ClientOnly(c, cl)

\* The connection of the socket in #ws is lost, or its opening fails:
\* ws.onclose runs.
ClientLoss(c) ==
    /\ clients[c].readyState \in {"connecting", "open"}
    /\ ClosedWith(c, clients[c].ws,
                  attemptReconnect([clients[c] EXCEPT !.readyState = "closed"]))

\* The close event of a socket that disconnect() closed: its onclose runs.
ClientCloseEvent(c) ==
    /\ clients[c].closing # <<>>
    /\ ClosedWith(c, Head(clients[c].closing),
                  attemptReconnect([clients[c] EXCEPT !.closing = Tail(@)]))

\* A timer of #attemptReconnect fires: connect(wsUrl).
ClientTimerFires(c) ==
    /\ clients[c].timers # <<>>
    /\ ClientOnly(c, connect([clients[c] EXCEPT !.timers = Tail(@)]))

\* The application calls disconnect().
ClientDisconnect(c) == ClientOnly(c, disconnect(clients[c]))

\* The server accepts the socket a reconnect made: websocket.open runs.
ClientAccepted(c) ==
    /\ clients[c].readyState = "connecting"
    /\ clients[c].ws = 0
    /\ WsOpen(clients[c].communitySlug)
    /\ clients' = [clients EXCEPT ![c].ws = generatePeerId]
    /\ UNCHANGED <<hashesUsed, actorsUsed>>

\* ws.onmessage: the next frame of the socket is handled.
ClientReceive(c) ==
    /\ clients[c].readyState = "open"
    /\ outbox[clients[c].ws] # <<>>
    /\ ClientDone(c, handleMessage(clients[c], toServer, Head(outbox[clients[c].ws])))
    /\ outbox' = [outbox EXCEPT ![clients[c].ws] = Tail(@)]
    /\ UNCHANGED <<serverVars, hashesUsed, actorsUsed, hist>>
    /\ UNCHANGED <<apiVars, pageVars>>

\* websocket.message on the next frame a client has sent.
ServerReceive(p) ==
    /\ p \in DOMAIN toServer
    /\ toServer[p] # <<>>
    /\ Head(toServer[p]).type = "sync"
    /\ WsSync(p, Head(toServer[p]).msg)
    /\ toServer' = [toServer EXCEPT ![p] = Tail(@)]
    /\ UNCHANGED <<hashesUsed, clients>>

\* A folk-transform or content-change event of a registered shape:
\* #handleShapeChange, that is #updateShapeInDoc and #syncToServer.
ClientUpdate(c, id, data) ==
    /\ ClientDone(c,
           syncToServer([clients[c] EXCEPT !.doc =
                            Commit(@, PutChange(hashesUsed + 1, @, id, data))],
                        toServer))
    /\ hashesUsed' = hashesUsed + 1
    /\ UNCHANGED <<serverVars, actorsUsed, outbox, hist>>
    /\ UNCHANGED <<apiVars, pageVars>>

\* deleteShape(shapeId), for a shape the document shows.
ClientDelete(c, id) ==
    /\ DeletesSomething(clients[c].doc, id)
    /\ ClientDone(c,
           syncToServer([clients[c] EXCEPT !.doc =
                            Commit(@, DelChange(hashesUsed + 1, @, id))],
                        toServer))
    /\ hashesUsed' = hashesUsed + 1
    /\ UNCHANGED <<serverVars, actorsUsed, outbox, hist>>
    /\ UNCHANGED <<apiVars, pageVars>>

\* The width a client gives the shapes it moves.
WidthOf(c) == 10 * c

\* Clients that join the relay at any time.
NextSync ==
    \/ \E slug \in Slugs : ClientConnect(slug)
    \/ \E c \in DOMAIN clients : ClientOnOpen(c)
    \/ \E c \in DOMAIN clients : ClientReceive(c)
    \/ \E p \in 1..MaxPeers : ServerReceive(p)
    \/ \E c \in DOMAIN clients, id \in ShapeIds :
          hashesUsed < MaxSyncChanges /\ ClientUpdate(c, id, ShapeData(id, WidthOf(c)))

SpecSync == InitResident /\ [][NextSync]_vars

\* The module state of the process after the first load.
ResidentStore ==
    [communities |->
         [s \in Slugs |->
             AutomergeLoad([ok |-> TRUE, changes |-> {SavedRoot}], ServerActor)],
     peerSyncStates |-> EmptyMap, saveTimers |-> EmptyMap,
     pendingTimers |-> EmptyMap, timersCreated |-> 0]

\* websocket.open of the next socket, after the handler that gave r.
OpenNext(r, peerId, states) ==
    OpenThen(r.store, TRUE, "garden", peerId, r.outbox, states)

BothOpened(r) ==
    /\ communities = r.store.communities
    /\ peerSyncStates = r.store.peerSyncStates
    /\ saveTimers = r.store.saveTimers
    /\ pendingTimers = r.store.pendingTimers
    /\ timersCreated = r.store.timersCreated
    /\ outbox = r.outbox

\* The state after two clients were constructed and their sockets accepted,
\* one after the other, on the resident document.
InitBoth ==
    /\ hashesUsed = 3
    /\ actorsUsed = {1, RootActor, 3, ServerActor}
    /\ clock = 1
    /\ writes = {}
    /\ disk = [s \in Slugs |->
                  [automerge |-> BinaryFile([ok |-> TRUE, changes |-> {SavedRoot}]),
                   json |-> NoFile]]
    /\ loads = {}
    /\ loadsStarted = 0
    /\ peersCreated = 2
    /\ wsState = <<"open", "open">>
    /\ wsSlug = <<"garden", "garden">>
    /\ communityClients = [s \in Slugs |-> <<1, 2>>]
    /\ toServer = << <<>>, <<>> >>
    /\ BothOpened(OpenNext(OpenThen(ResidentStore, TRUE, "garden", 1,
                                    << <<>>, <<>> >>, wsState),
                           2, wsState))
    /\ clients = [c \in {1, 2} |->
                     [CommunitySync("garden", 2 * c - 1, c + 1, clock)
                         EXCEPT !.ws = c, !.readyState = "connecting"]]
    /\ hist = [InitHist EXCEPT !.applied = [s \in Slugs |-> {SavedRoot.hash}]]
    /\ creates = {}
    /\ replies = EmptyMap
    /\ resize = NewResizeManager

\* Two connected clients that edit.
NextEdit ==
    \/ \E c \in DOMAIN clients : ClientOnOpen(c)
    \/ \E c \in DOMAIN clients : ClientReceive(c)
    \/ \E p \in 1..MaxPeers : ServerReceive(p)
    \/ \E c \in DOMAIN clients, id \in ShapeIds :
          hashesUsed < MaxEditChanges /\ ClientUpdate(c, id, ShapeData(id, WidthOf(c)))
    \/ \E c \in DOMAIN clients, id \in ShapeIds :
          hashesUsed < MaxEditChanges /\ ClientDelete(c, id)

SpecEdit == InitBoth /\ [][NextEdit]_vars

\* Neither the client nor the server has a sync message for the other, and
\* none is on its way.
PairQuiescent(cl) ==
    /\ cl.readyState = "open"
    /\ toServer[cl.ws] = <<>>
    /\ outbox[cl.ws] = <<>>
    /\ ~generateSyncMessage(cl.doc, cl.syncState).some
    /\ cl.communitySlug \in DOMAIN communities
    /\ cl.ws \in getCommunityPeers(peerSyncStates, cl.communitySlug)
    /\ ~generateSyncMessage(communities[cl.communitySlug],
                            peerSyncStates[cl.communitySlug][cl.ws].syncState).some

Quiescent ==
    /\ Cardinality(DOMAIN clients) = 2
    /\ \A c \in DOMAIN clients : PairQuiescent(clients[c])

MaxRaceChanges == 6    \* changes ever authored where a delete meets an edit

\* Two clients: the second opens and draws a shape before the first has
\* opened; from then on the second resizes the shape while the first, which
\* learns of the shape when it opens, deletes it.
NextRace ==
    \/ \E c \in DOMAIN clients : ClientOnOpen(c)
    \/ \E c \in DOMAIN clients : ClientReceive(c)
    \/ \E p \in 1..MaxPeers : ServerReceive(p)
    \/ \E id \in ShapeIds :
          /\ hashesUsed = 3
          /\ clients[1].readyState = "connecting"
          /\ PairQuiescent(clients[2])
          /\ ClientUpdate(2, id, ShapeData(id, 10))
    \/ \E id \in ShapeIds :
          /\ hashesUsed < MaxRaceChanges
          /\ id \in DOMAIN DocShapes(clients[2].doc)
          /\ ClientUpdate(2, id, ShapeData(id, 20))
    \/ \E id \in ShapeIds :
          hashesUsed < MaxRaceChanges /\ ClientDelete(1, id)

SpecRace == InitBoth /\ [][NextRace]_vars

\* ------------------------------------------------------------- properties
LivePeers(slug) ==
    IF slug \in DOMAIN communityClients THEN DOMAIN communityClients[slug] ELSE {}

\* C2: no lost update -- every change that was applied to the canonical
\* replica of a document is still in the canonical replica in every later
\* state, whatever the interleaving of reconciliations and overlapping loads.
NoLostUpdate ==
    \A s \in DOMAIN communities :
        hist.applied[s] \subseteq HashesOf(communities[s].changes)

\* C3: once a document is resident, its replica is changed only by the steps
\* of receiveSyncMessage, updateShape and deleteShape: a step in which a
\* loadCommunity call settles leaves the resident replica as it is.
ResidentNeverReplaced ==
    [][\A s \in DOMAIN communities :
          /\ s \in DOMAIN communities'
          /\ (communities'[s].changes # communities[s].changes => loads' = loads)]_vars

\* C4: every entry of the peer sync-state table belongs to a peer whose
\* connection is registered for that document; after close has run for a
\* peer the table holds no entry of it.
PeerStatesLive ==
    \A s \in DOMAIN peerSyncStates :
        DOMAIN peerSyncStates[s] \subseteq LivePeers(s)

\* C5: a sync message whose changes are all merged already leaves the
\* canonical replica as it is, yields an empty fan-out map, changes the
\* cursor of no peer but the sender and arms no persistence timer.
IdempotentRetransmission ==
    [][\A p \in DOMAIN wsState : \A m \in RawKnownMessages(wsSlug[p]) :
          WsSync(p, m) =>
              /\ communities' = communities
              /\ receiveSyncMessage(Store, wsSlug[p], p, m, clock).broadcastToPeers
                     = EmptyMap
              /\ \A q \in DOMAIN outbox \ {p} : outbox'[q] = Wire[q]
              /\ \A q \in getCommunityPeers(peerSyncStates, wsSlug[p]) \ {p} :
                     peerSyncStates'[wsSlug[p]][q] = peerSyncStates[wsSlug[p]][q]
              /\ <<saveTimers, pendingTimers, timersCreated>>'
                     = <<saveTimers, pendingTimers, timersCreated>>]_vars

\* A peer has sent again a change another peer made, and that other peer
\* has a cursor in the table.
RetransmissionSeen ==
    \E s \in DOMAIN peerSyncStates : \E p, q \in DOMAIN peerSyncStates[s] :
        /\ p # q
        /\ s \in DOMAIN communities
        /\ peerSyncStates[s][p].syncState.theirHave = <<>>
        /\ \E c \in communities[s].changes :
              /\ c.actor = RawActor(q)
              /\ peerSyncStates[s][p].syncState.theirHeads = {c.hash}

\* C6: when a sync message of peer p changes the canonical replica, every
\* other peer that is live on the document is a key of the fan-out map and
\* a catch-up frame is put on its socket.
FanOutOnChange ==
    [][\A p \in DOMAIN wsState :
          \A c \in RawNewChanges(communities[wsSlug[p]], p) :
              (WsSync(p, CarryMessage(c)) /\ communities' # communities) =>
                  \A q \in LivePeers(wsSlug[p]) \ {p} :
                      /\ q \in DOMAIN receiveSyncMessage(Store, wsSlug[p], p,
                                          CarryMessage(c), clock).broadcastToPeers
                      /\ Len(outbox'[q]) = Len(Wire[q]) + 1]_vars

\* A peer's change has been merged while another peer was live.
MergedBesideLivePeer ==
    \E s \in DOMAIN communities : \E p, q \in LivePeers(s) :
        /\ p # q
        /\ \E c \in communities[s].changes : c.actor = RawActor(p)

AtMostOneTimer ==
    \A s \in Slugs :
        /\ Cardinality(TimersOf(s)) <= 1
        /\ TimersOf(s) # {} => (s \in DOMAIN saveTimers /\ TimersOf(s) = {saveTimers[s]})

\* A call made while a timer was armed has replaced it.
TimerRearmed ==
    \E s \in Slugs :
        /\ hist.muts[s] = 2
        /\ timersCreated = 2
        /\ Cardinality(TimersOf(s)) = 1

\* C10: once nothing is left to happen for a document (no armed timer, no
\* write or load in progress, no write failed), its durable record equals
\* the serialisation of its in-memory replica.
LastStateDurable ==
    \A s \in DOMAIN communities :
        (TimersOf(s) = {} /\ writes = {} /\ loads = {} /\ ~hist.failed) =>
            /\ disk[s].automerge.present
            /\ disk[s].automerge.changes = AutomergeSave(communities[s]).changes

\* C1: whenever the exchange of two clients with the relay is quiescent,
\* the shapes each client's document shows are the shapes the canonical
\* replica shows.
Convergence ==
    Quiescent =>
        \A c \in DOMAIN clients :
            DocShapes(clients[c].doc) = DocShapes(communities[clients[c].communitySlug])

\* Two clients have edited the same shape and are quiescent.
ConvergedOnEdits ==
    /\ Quiescent
    /\ \E c \in DOMAIN clients :
          \E x, y \in clients[c].doc.changes :
              /\ x.kind = "put" /\ y.kind \in {"put", "del"}
              /\ x.actor # y.actor
              /\ x.hash \notin HashesOf(Ancestors(clients[c].doc.changes, {y.hash}))
              /\ y.hash \notin HashesOf(Ancestors(clients[c].doc.changes, {x.hash}))

\* C7: a client that connects when the canonical replica shows s1, another
\* client's shape, shows s1 with that client's values once its first exchange
\* with the server is quiescent, and the canonical replica still shows s1.
\* (No change but the joiner's own first one was made since it connected.)
LateJoinerCatchUp ==
    \A a, b \in DOMAIN clients :
        (/\ a # b
         /\ "s1" \in DOMAIN clients[b].canonAtConnect
         /\ "s1" \in DOMAIN DocShapes(clients[a].doc)
         /\ hashesUsed = MaxOf(HashesOf(InitChanges(clients[b].doc)))
         /\ PairQuiescent(clients[b]))
        => /\ "s1" \in DOMAIN DocShapes(clients[b].doc)
           /\ DocShapes(clients[b].doc)["s1"] = DocShapes(clients[a].doc)["s1"]
           /\ "s1" \in DOMAIN DocShapes(communities[clients[b].communitySlug])


\* C11: a create request for a slug whose document exists is answered 409
\* and changes nothing, and of the create requests for one slug at most one
\* succeeds, however the requests interleave.
AtMostOneCreated ==
    \A slug \in Slugs :
        Cardinality({i \in DOMAIN replies :
                        replies[i].status = 200 /\ replies[i].slug = slug}) <= 1


\* C12: a create request whose name or slug is missing, or whose slug is not
\* of the form ^[a-z0-9-]+$, is answered 400; no document becomes resident,
\* no timer is armed, no durable record is written, and communityExists of
\* its slug is what it was.
InvalidCreateRejected ==
    [][\A name \in RequestNames, slug \in RequestSlugs :
          (/\ CreateRequest(name, slug)
           /\ (name = "" \/ slug = "" \/ ~SlugFormat(slug)))
          => /\ replies' = MapSet(replies, RequestsSeen + 1, Reply(400, slug))
             /\ creates' = creates
             /\ UNCHANGED <<communities, saveTimers, pendingTimers, timersCreated,
                            writes, disk>>
             /\ communityExists(slug)' = communityExists(slug)]_vars

InvalidSlugRejected ==
    \E i \in DOMAIN replies : replies[i] = Reply(400, "My Slug!")


\* C13: the meta (name, slug, createdAt) of the canonical replica of a
\* document stays the meta it had when the document was first loaded,
\* whatever is merged into the replica afterwards.
MetaImmutable ==
    \A slug \in DOMAIN communities : DocMeta(communities[slug]) = SavedRoot.meta


\* C14: every resident document reads with a defined meta and a defined
\* (possibly empty) shapes mapping, after any sequence of create, load,
\* migration, sync merge and legacy update and delete.
ResidentWellFormed ==
    \A slug \in DOMAIN communities :
        /\ Materialize(communities[slug]).hasMeta
        /\ Materialize(communities[slug]).meta # NoMeta
        /\ DOMAIN Materialize(communities[slug]).shapes \subseteq ShapeIds

CreatedAndEdited ==
    /\ \E i \in DOMAIN replies : replies[i].status = 200
    /\ \E slug \in DOMAIN communities :
          /\ \E c \in communities[slug].changes : c.kind = "put"
          /\ Materialize(communities[slug]).hasMeta


DeleteEditOutcome ==
    Quiescent =>
        \A c \in DOMAIN clients :
            /\ DocShapes(clients[c].doc) =
                   DocShapes(communities[clients[c].communitySlug])
            /\ \A id \in DOMAIN DocShapes(communities[clients[c].communitySlug]) :
                   DocShapes(communities[clients[c].communitySlug])[id] \in ShapeValues

\* The delete and the resize were concurrent, and every replica has both.
DeleteMetEdit ==
    /\ Quiescent
    /\ \A c \in DOMAIN clients :
          \E d, u \in clients[c].doc.changes :
              /\ d.kind = "del" /\ d.pred # {} /\ d.actor = clients[1].doc.actor
              /\ u.kind = "put" /\ u.val.width = 20 /\ u.actor = clients[2].doc.actor
              /\ d.hash \notin HashesOf(Ancestors(clients[c].doc.changes, {u.hash}))
              /\ u.hash \notin HashesOf(Ancestors(clients[c].doc.changes, {d.hash}))


\* C17: handling a presence frame or a ping frame leaves the resident
\* replicas, every peer's sync state, the armed timers and the durable
\* records as they were.
EphemeralFramesLeaveStore ==
    [][\A p \in 1..MaxPeers :
          (RawPresence(p) \/ RawPing(p))
          => UNCHANGED <<communities, peerSyncStates, saveTimers, pendingTimers,
                         timersCreated, writes, disk>>]_vars

\* A pong or a presence frame was written while a document was resident with
\* a sync state and an armed timer.
EphemeralFrameSeen ==
    /\ \E q \in DOMAIN outbox :
          outbox[q] # <<>> /\ outbox[q][Len(outbox[q])].type \in {"pong", "presence"}
    /\ \E slug \in DOMAIN communities :
          /\ slug \in DOMAIN peerSyncStates
          /\ TimersOf(slug) # {}

\* C18: a presence frame of peer p reaches every open socket registered on
\* p's slug other than p's, and no other socket.
PresenceFanOut ==
    [][\A p \in 1..MaxPeers, msg \in PresenceBodies :
          (p \in DOMAIN wsState /\ WsPresence(p, msg))
          => \A q \in DOMAIN outbox :
                outbox'[q] =
                    IF q # p /\ wsSlug[q] = wsSlug[p] /\ wsState[q] = "open"
                    THEN Append(Wire[q], Spread([type |-> "presence", peerId |-> p], msg))
                    ELSE Wire[q]]_vars

\* A presence frame was delivered to the other peer of the slug.
PresenceDelivered ==
    \E q \in DOMAIN outbox :
        /\ outbox[q] # <<>>
        /\ outbox[q][Len(outbox[q])].type = "presence"
        /\ outbox[q][Len(outbox[q])].peerId \in DOMAIN wsSlug \ {q}


\* C19: a sync frame is written only to a socket that is open and registered
\* under its slug; a frame for a socket that is closed is dropped, and the
\* handler still finishes.
BestEffortSend ==
    [][\A q \in DOMAIN outbox' :
          (/\ q \in DOMAIN outbox => outbox'[q] # outbox[q]
           /\ Len(outbox'[q]) > (IF q \in DOMAIN outbox THEN Len(Wire[q]) ELSE 0)
           /\ outbox'[q][Len(outbox'[q])].type = "sync")
          => /\ wsState'[q] = "open"
             /\ wsSlug'[q] \in DOMAIN communityClients'
             /\ q \in DOMAIN communityClients'[wsSlug'[q]]]_vars

\* The first sync message of a socket that closed while its load was pending
\* was generated and dropped.
CatchUpDropped ==
    \E q \in DOMAIN wsState :
        /\ wsState[q] = "closed"
        /\ outbox[q] = <<>>
        /\ wsSlug[q] \in DOMAIN peerSyncStates
        /\ q \in DOMAIN peerSyncStates[wsSlug[q]]
        /\ peerSyncStates[wsSlug[q]][q].syncState.haveResponded


\* C20: the server handles the frames of a socket in the order it received
\* them, and the reply to a frame is written after every reply written on
\* that socket before: the frames already on a socket stay ahead of it.
RepliesInOrder ==
    [][\A p \in DOMAIN toServer :
          (toServer[p] # <<>> /\ toServer'[p] = Tail(toServer[p]))
          => \/ outbox'[p] = outbox[p]
             \/ /\ Len(outbox'[p]) = Len(outbox[p]) + 1
                /\ SubSeq(outbox'[p], 1, Len(outbox[p])) = outbox[p]]_vars

\* The replies to two frames of one socket wait on the socket, the reply to
\* the later frame last: the later reply tells of a change the earlier does not.
TwoRepliesQueued ==
    \E p \in DOMAIN outbox :
        /\ Len(outbox[p]) >= 2
        /\ outbox[p][Len(outbox[p])].type = "sync"
        /\ outbox[p][Len(outbox[p]) - 1].type = "sync"
        /\ toServer[p] = <<>>
        /\ outbox[p][Len(outbox[p])].msg.heads # outbox[p][Len(outbox[p]) - 1].msg.heads
        /\ peerSyncStates[wsSlug[p]][p].syncState.theirKnown

\* C21: an update or delete frame for a document that is not resident ends
\* normally and leaves the cache, the sync states, the timers and the durable
\* records as they were.
AbsentDocumentNoOp ==
    [][\A p \in 1..MaxPeers :
          (/\ p \in DOMAIN wsSlug
           /\ wsSlug[p] \notin DOMAIN communities
           /\ (RawUpdate(p) \/ RawDelete(p)))
          => UNCHANGED <<communities, peerSyncStates, saveTimers, pendingTimers,
                         timersCreated, writes, disk, hashesUsed>>]_vars

\* A legacy frame was relayed between two sockets of a slug that has no
\* record and no resident document.
AbsentDocumentEdited ==
    \E q \in DOMAIN outbox :
        /\ outbox[q] # <<>>
        /\ outbox[q][Len(outbox[q])].type \in {"update", "delete"}
        /\ wsSlug[q] \notin DOMAIN communities
        /\ loads = {}

\* C22: on a resident document an update frame makes shapes[id] the record
\* it carries and a delete frame makes id absent; every other shape and the
\* meta stay as they were, and a timer is armed for the document.
SavePending(slug) ==
    /\ slug \in DOMAIN saveTimers'
    /\ saveTimers'[slug] \in DOMAIN pendingTimers' \ DOMAIN pendingTimers
    /\ pendingTimers'[saveTimers'[slug]] = slug

ShapesBecome(slug, shapes) ==
    /\ DocShapes(communities'[slug]) = shapes
    /\ DocMeta(communities'[slug]) = DocMeta(communities[slug])
    /\ SavePending(slug)

WholeRecordEdits ==
    [][\A p \in 1..MaxPeers, id \in LegacyIds :
          (p \in DOMAIN wsSlug /\ wsSlug[p] \in DOMAIN communities)
          => /\ \A w \in Widths :
                   WsUpdate(p, id, ShapeData(id, w))
                   => ShapesBecome(wsSlug[p],
                          MapSet(DocShapes(communities[wsSlug[p]]), id,
                                 ShapeData(id, w)))
             /\ WsDelete(p, id)
                => ShapesBecome(wsSlug[p],
                       MapDel(DocShapes(communities[wsSlug[p]]), id))]_vars

\* A document shows two shapes, each put by a frame or a record of its own,
\* and a save of it is pending.
TwoShapesKept ==
    \E slug \in DOMAIN communities :
        /\ DOMAIN DocShapes(communities[slug]) = LegacyIds
        /\ TimersOf(slug) # {}

\* C23: getPeerSyncState(d, p) makes a state with a fresh cursor only when
\* the table has none for (d, p); otherwise it gives the state the table has,
\* its cursor as it was and its lastActivity refreshed.  No other entry of the
\* table changes, and a second get gives the same table again.
GetOutcome(tbl, t, slug, p, now) ==
    /\ DOMAIN t = DOMAIN tbl \cup {slug}
    /\ \A s \in DOMAIN tbl \ {slug} : t[s] = tbl[s]
    /\ DOMAIN t[slug] = getCommunityPeers(tbl, slug) \cup {p}
    /\ \A q \in getCommunityPeers(tbl, slug) \ {p} : t[slug][q] = tbl[slug][q]
    /\ t[slug][p].lastActivity = now
    /\ t[slug][p].syncState =
           IF p \in getCommunityPeers(tbl, slug) THEN tbl[slug][p].syncState
           ELSE initSyncState
    /\ getPeerSyncState(t, slug, p, now + 1)[slug][p].syncState = t[slug][p].syncState

PeerStateGetOrCreate ==
    \A slug \in Slugs, p \in 1..MaxPeers, now \in {clock, clock + 1} :
        GetOutcome(peerSyncStates, getPeerSyncState(peerSyncStates, slug, p, now),
                   slug, p, now)

\* The table holds a state whose cursor has moved since it was made.
CursorAdvanced ==
    \E slug \in DOMAIN peerSyncStates :
        \E p \in DOMAIN peerSyncStates[slug] :
            /\ peerSyncStates[slug][p].syncState # initSyncState
            /\ peerSyncStates[slug][p].syncState.sharedHeads # {}

\* C24: neither the sync-state table nor the connection registry ever holds
\* an empty collection; closing the last socket of a slug removes the slug's
\* collection from both, and removing a peer that has no state changes nothing.
NoEmptyCollection(tbl) == \A slug \in DOMAIN tbl : DOMAIN tbl[slug] # {}

CloseOutcome(slug, p) ==
    /\ p \notin LivePeers(slug)'
    /\ p \notin getCommunityPeers(peerSyncStates', slug)
    /\ LivePeers(slug) = {p} => slug \notin DOMAIN communityClients'
    /\ getCommunityPeers(peerSyncStates, slug) \subseteq {p}
          => slug \notin DOMAIN peerSyncStates'
    /\ p \notin getCommunityPeers(peerSyncStates, slug)
          => peerSyncStates' = peerSyncStates

NoOrphanContainers ==
    /\ [](NoEmptyCollection(peerSyncStates) /\ NoEmptyCollection(communityClients))
    /\ [][\A p \in 1..MaxPeers :
             (p \in DOMAIN wsState /\ WsClose(p)) => CloseOutcome(wsSlug[p], p)]_vars
    /\ [][\A slug \in Slugs, p \in 1..MaxPeers :
             p \notin getCommunityPeers(peerSyncStates, slug)
             => removePeerSyncState(peerSyncStates, slug, p) = peerSyncStates]_vars

\* Every socket has closed and both tables are empty again, after a peer
\* had sent a change, for which the table held its state.
LastPeerRemoved ==
    /\ disk["garden"].automerge.present
    /\ hashesUsed > 1
    /\ wsState # EmptyMap
    /\ \A p \in DOMAIN wsState : wsState[p] = "closed"
    /\ peerSyncStates = EmptyMap
    /\ communityClients = EmptyMap

\* C25: communityExists(slug) is true of a slug exactly when its document is
\* resident or STORAGE_DIR holds a canonical or legacy record of it; it is
\* true of every slug a create request was answered 200 for, from the answer
\* on, whether or not a record has been written.
ExistsIff(slug) ==
    communityExists(slug)
    <=> \/ slug \in DOMAIN communities
        \/ slug \in DOMAIN disk /\ disk[slug].automerge.present
        \/ slug \in DOMAIN disk /\ disk[slug].json.present

Returns(l) == l \in loads /\ \A x \in loads' : x.id # l.id

BothPresent(slug) == disk[slug].automerge.present /\ disk[slug].json.present

NotFound(l) ==
    /\ UNCHANGED <<communities, peerSyncStates, saveTimers, pendingTimers,
                   timersCreated, disk, writes>>
    /\ \A q \in DOMAIN outbox' : outbox'[q] = Wire[q]

FromCanonical(slug) ==
    /\ slug \in DOMAIN communities'
    /\ communities'[slug].changes = disk[slug].automerge.changes

LoadOutcome ==
    [][\A l \in loads :
          Returns(l)
          => /\ (BothPresent(l.slug) /\ disk[l.slug].automerge.ok)
                   => FromCanonical(l.slug)
             /\ (~disk[l.slug].automerge.present /\ ~disk[l.slug].json.present)
                   => NotFound(l)
             /\ (/\ ~disk[l.slug].automerge.present
                 /\ disk[l.slug].json.present
                 /\ ~disk[l.slug].json.ok)
                   => NotFound(l)]_vars

\* C26 as stated: whenever both records are present the replica is built
\* from the canonical one.
CanonicalAlwaysWins ==
    [][\A l \in loads :
          (Returns(l) /\ BothPresent(l.slug)) => FromCanonical(l.slug)]_vars

\* A document is resident with the history of its canonical record while a
\* legacy record of it is on storage.
LoadedBesideLegacy ==
    \E slug \in DOMAIN communities :
        /\ BothPresent(slug)
        /\ communities[slug].changes = disk[slug].automerge.changes
        /\ loads = {}

\* Every load of a slug with an unreadable legacy record has resolved to null.
UnreadableLegacyLoaded ==
    /\ loadsStarted = MaxLoads
    /\ loads = {}
    /\ \E slug \in Slugs :
          /\ slug \notin DOMAIN communities
          /\ disk[slug].json.present
          /\ ~disk[slug].json.ok

\* C27: when a load of a document that has only a legacy record returns, the
\* replica shows the record's meta and shapes, the canonical record is on
\* storage, and the legacy record is as it was.
LegacyOnly(slug) ==
    /\ ~disk[slug].automerge.present
    /\ disk[slug].json.present
    /\ disk[slug].json.ok

MigratedReplica(slug) ==
    /\ slug \in DOMAIN communities'
    /\ DocMeta(communities'[slug]) = disk[slug].json.meta
    /\ DocShapes(communities'[slug]) = disk[slug].json.shapes
    /\ disk'[slug].json = disk[slug].json

MigrationPersisted ==
    [][\A l \in loads :
          (Returns(l) /\ LegacyOnly(l.slug))
          => /\ MigratedReplica(l.slug)
             /\ disk'[l.slug].automerge.present]_vars

\* C28: a payload that cannot be decoded is dropped: the replicas, the sync
\* states, the timers and the registry are as they were, no frame is written
\* to any socket, and the sender stays registered.
MalformedDropped ==
    [][\A p \in 1..MaxPeers :
          (p \in DOMAIN wsState /\ RawMalformed(p))
          => /\ UNCHANGED <<communities, peerSyncStates, saveTimers, pendingTimers,
                            timersCreated, communityClients, wsState>>
             /\ \A q \in DOMAIN outbox' : outbox'[q] = Wire[q]
             /\ p \in LivePeers(wsSlug[p])']_vars

DocView(d) ==
    [replica |-> IF d \in DOMAIN communities THEN {communities[d]} ELSE {},
     states |-> IF d \in DOMAIN peerSyncStates THEN {peerSyncStates[d]} ELSE {},
     sockets |-> IF d \in DOMAIN communityClients THEN {communityClients[d]} ELSE {},
     timers |-> TimersOf(d),
     saveTimer |-> IF d \in DOMAIN saveTimers THEN {saveTimers[d]} ELSE {},
     record |-> disk[d]]

Untouched(e) ==
    /\ DocView(e)' = DocView(e)
    /\ \A q \in DOMAIN outbox' :
          wsSlug'[q] = e
          => /\ q \in DOMAIN outbox
             /\ outbox'[q] = Wire[q] \/ outbox'[q] = outbox[q]

Addresses(d) ==
    \/ RawOpen(d)
    \/ CreateRequest("Plot", d)
    \/ \E l \in loads :
          /\ l.slug = d
          /\ \/ LoadBinExists(l)
             \/ LoadBinRead(l)
             \/ LoadJsonExists(l)
             \/ LoadJsonRead(l)
    \/ \E r \in creates : r.slug = d /\ (CreateBinExists(r) \/ CreateJsonExists(r))
    \/ \E p \in DOMAIN wsSlug :
          /\ wsSlug[p] = d
          /\ \/ RawSyncNew(p)
             \/ RawUpdate(p)
             \/ RawDelete(p)
             \/ RawPing(p)
             \/ RawPresence(p)
             \/ RawMalformed(p)
             \/ RawClose(p)
    \/ \E h \in DOMAIN pendingTimers : pendingTimers[h] = d /\ TimerFires(h)
    \/ \E w \in writes : w.slug = d /\ WriteFails(w)

SenderCursor(slug, p) ==
    IF slug \in DOMAIN peerSyncStates /\ p \in DOMAIN peerSyncStates[slug]
    THEN peerSyncStates[slug][p].syncState
    ELSE initSyncState

\* The sync messages a socket can send in the current state.
SyncMessagesOf(p) ==
    RawKnownMessages(wsSlug[p])
        \cup {CarryMessage(c) : c \in RawNewChanges(communities[wsSlug[p]], p)}

\* After the step the replica is the merge result r.doc, the sender's cursor
\* is the one of the reply g, and the sender was written g's message if any.
ReplyOutcome(p, r, g) ==
    /\ wsSlug[p] \in DOMAIN communities'
    /\ communities'[wsSlug[p]] = r.doc
    /\ p \in getCommunityPeers(peerSyncStates', wsSlug[p])
    /\ peerSyncStates'[wsSlug[p]][p].syncState = g.state
    /\ outbox'[p] = IF g.some THEN Append(Wire[p], SyncFrame(g.msg)) ELSE Wire[p]

MergeThenReply(p, r) == ReplyOutcome(p, r, generateSyncMessage(r.doc, r.state))

\* C31: receiveSyncMessage on a resident document merges the message with
\* the sender's cursor, stores the merged replica and the returned cursor,
\* then computes the reply from the merged replica and that cursor, whether
\* or not the merge changed the replica; the cursor left in the table for the
\* sender is the one reply generation returned.
MergeStoreReplyOrder ==
    [][\A p \in DOMAIN wsState :
          (wsSlug[p] \in DOMAIN communities /\ wsState[p] = "open"
                  /\ wsState' = wsState) =>
              \A m \in SyncMessagesOf(p) :
                  WsSync(p, m) =>
                      MergeThenReply(p,
                          AutomergeReceiveSyncMessage(communities[wsSlug[p]],
                              SenderCursor(wsSlug[p], p), m))]_vars

\* A peer whose change is in the replica was replied to, and its cursor
\* records the heads of the replica as the last heads sent to it.
MergedAndReplied ==
    \E s \in DOMAIN peerSyncStates : \E p \in DOMAIN peerSyncStates[s] :
        /\ s \in DOMAIN communities
        /\ \E c \in communities[s].changes : c.actor = RawActor(p)
        /\ peerSyncStates[s][p].syncState.haveResponded
        /\ peerSyncStates[s][p].syncState.lastSentHeads = getHeads(communities[s])
        /\ Len(outbox[p]) > 0

\* The relay of sockets on two slugs, one of them without any record, with
\* every kind of frame and one create request; the sockets open on the slug
\* without a record, the other document is loaded by HTTP requests, and the
\* run is followed until the create request has been answered.
Unanswered == replies = EmptyMap

NextAbsent ==
    \/ \E slug \in Rooms \ Slugs : Unanswered /\ RawOpen(slug)
    \/ \E slug \in Rooms : HttpLoad(slug)
    \/ \E l \in loads : LoadBinExists(l)
    \/ \E l \in loads : LoadBinRead(l)
    \/ \E l \in loads : LoadJsonExists(l)
    \/ \E p \in 1..MaxPeers : Unanswered /\ RawSyncKnown(p)
    \/ \E p \in 1..MaxPeers : Unanswered /\ RawUpdate(p)
    \/ \E p \in 1..MaxPeers : Unanswered /\ RawDelete(p)
    \/ \E p \in 1..MaxPeers : Unanswered /\ RawPing(p)
    \/ \E p \in 1..MaxPeers : Unanswered /\ RawPresence(p)
    \/ \E p \in 1..MaxPeers : Unanswered /\ RawClose(p)
    \/ \E slug \in Rooms :
          loads = {} /\ RequestsSeen < 1 /\ CreateRequest("Plot", slug)
    \/ \E r \in creates : CreateBinExists(r)
    \/ \E r \in creates : CreateJsonExists(r)

SpecAbsent == InitRooms /\ [][NextAbsent]_vars

\* The document of slug has a record on storage.
OnStorage(slug) == disk[slug].automerge.present \/ disk[slug].json.present

\* The step is the return of a loadCommunity call for slug that read a record.
LoadReturns(slug) ==
    \E l \in loads : l.slug = slug /\ OnStorage(slug)
                        /\ (LoadBinRead(l) \/ LoadJsonRead(l))

\* The step is the createCommunity call of a create request for slug.
CreateReturns(slug) == \E r \in creates : r.slug = slug /\ CreateJsonExists(r)

\* After the step slug has no document, no cursor and no timer, and no
\* socket registered on it was written a sync frame.
NothingMade(slug) ==
    /\ slug \notin DOMAIN communities'
    /\ slug \notin DOMAIN peerSyncStates'
    /\ slug \notin DOMAIN saveTimers'
    /\ \A q \in DOMAIN outbox' :
          wsSlug'[q] = slug => \A i \in DOMAIN outbox'[q] : outbox'[q][i].type # "sync"

\* C32: a document becomes resident only by createCommunity or by a
\* loadCommunity call that read a record; every other step on a slug that is
\* neither resident nor on storage (a socket opening, a sync, presence, ping,
\* update or delete frame) makes no document, no cursor and no timer for it
\* and writes no sync frame to its sockets.
ResidentOnlyByCreateOrLoad ==
    [][\A slug \in Rooms :
          slug \notin DOMAIN communities =>
              /\ slug \in DOMAIN communities' =>
                     (LoadReturns(slug) \/ CreateReturns(slug))
              /\ (~OnStorage(slug) /\ ~CreateReturns(slug)) => NothingMade(slug)]_vars

\* Two sockets are open on a slug that has no document and no record, the
\* loadCommunity calls of both have returned, and a frame of one was handled.
AbsentSlugServed ==
    \E slug \in Rooms :
        /\ slug \notin DOMAIN communities
        /\ ~OnStorage(slug)
        /\ Cardinality({q \in DOMAIN wsState :
                            wsSlug[q] = slug /\ wsState[q] = "open"}) = 2
        /\ loads = {}
        /\ \E q \in DOMAIN outbox : wsSlug[q] = slug /\ Len(outbox[q]) > 0

\* C34: an update or delete frame is relayed to the other sockets of its
\* slug only if it was applied to the canonical replica; when the document is
\* not resident, handling the frame writes to no socket.
RelayOnlyWhenApplied ==
    [][\A p \in 1..MaxPeers :
          (/\ p \in DOMAIN wsSlug
           /\ wsSlug[p] \notin DOMAIN communities
           /\ (RawUpdate(p) \/ RawDelete(p)))
          => \A q \in DOMAIN outbox : outbox'[q] = Wire[q]]_vars

\* No frame is in flight in either direction and no socket is still opening:
\* nothing is left to happen unless a client edits or another one connects.
NothingInFlight ==
    \A c \in DOMAIN clients :
        /\ clients[c].readyState = "open"
        /\ toServer[clients[c].ws] = <<>>
        /\ outbox[clients[c].ws] = <<>>

\* Client c is connected and the canonical replica of its slug holds change h.
CanonicalHolds(c, h) ==
    /\ c \in DOMAIN clients
    /\ clients[c].readyState = "open"
    /\ clients[c].communitySlug \in DOMAIN communities
    /\ h \in HashesOf(communities[clients[c].communitySlug].changes)

\* The document of client c holds change h.
ClientHolds(c, h) ==
    c \in DOMAIN clients /\ h \in HashesOf(clients[c].doc.changes)

\* C33: every change applied to the canonical replica is sent on as a
\* catch-up delta to the other peers that have a cursor, so that every peer
\* that stays connected comes to hold the change without sending a message
\* of its own first: once every frame has been delivered and handled, each
\* connected client holds every change of the canonical replica.
CatchUpReachesPeers ==
    NothingInFlight =>
        \A c \in 1..MaxClients : \A h \in 1..MaxSyncChanges :
            CanonicalHolds(c, h) => ClientHolds(c, h)

MaxOfflineChanges == 3    \* changes ever authored where a client reconnects

\* One client whose connection is lost, fails to open, is closed by
\* disconnect() and is made again by the reconnect timers; the client edits
\* only while its socket is not open.
NextReconnect ==
    \/ \E slug \in Slugs : DOMAIN clients = {} /\ ClientConnect(slug)
    \/ \E c \in DOMAIN clients : ClientOnOpen(c)
    \/ \E c \in DOMAIN clients : ClientReceive(c)
    \/ \E p \in 1..MaxPeers : ServerReceive(p)
    \/ \E c \in DOMAIN clients : ClientLoss(c)
    \/ \E c \in DOMAIN clients : ClientCloseEvent(c)
    \/ \E c \in DOMAIN clients : ClientTimerFires(c)
    \/ \E c \in DOMAIN clients : ClientDisconnect(c)
    \/ \E c \in DOMAIN clients : ClientAccepted(c)
    \/ \E c \in DOMAIN clients, id \in ShapeIds :
          /\ clients[c].readyState # "open"
          /\ hashesUsed < MaxOfflineChanges
          /\ ClientUpdate(c, id, ShapeData(id, WidthOf(c)))

SpecReconnect == InitResident /\ [][NextReconnect]_vars

\* The edits of a document: the changes that put or delete a shape.
EditsOf(doc) == {x \in doc.changes : x.kind \in {"put", "del"}}

\* The edits of client c that the canonical replica lacks.
Missing(c) ==
    HashesOf(EditsOf(clients[c].doc))
        \ HashesOf(communities[clients[c].communitySlug].changes)

\* Change h of client c can still reach the server: a frame on its way to
\* the server carries it, or the client's cursor does not count it as sent
\* (generateSyncMessage leaves out the changes it counts as sent, and the
\* cursor forgets only changes the server is known to hold).
Deliverable(c, h) ==
    \/ h \notin clients[c].syncState.sentHashes
    \/ \E i \in DOMAIN toServer[clients[c].ws] :
          h \in HashesOf(toServer[clients[c].ws][i].msg.changes)

\* C35: an edit a client made while its socket was not open is not lost:
\* once the client has reconnected, the canonical replica holds the edit or
\* the edit can still reach it, so that the canonical replica holds it when
\* the exchange is quiescent.  (Under SpecReconnect every edit is made while
\* the socket is not open.)
OfflineEditsSurvive ==
    \A c \in DOMAIN clients :
        /\ PairQuiescent(clients[c]) => Missing(c) = {}
        /\ (clients[c].readyState = "open" /\ clients[c].ws > 1) =>
               \A h \in Missing(c) : Deliverable(c, h)

\* C36: after disconnect() the client stays disconnected: while #ws is null
\* no reconnect is scheduled and no socket is made.  (No step of SpecReconnect
\* is a call of connect() by the application after the first.)
StaysDisconnected ==
    [][\A c \in DOMAIN clients :
          clients[c].readyState = "none" =>
              /\ clients'[c].readyState = "none"
              /\ Len(clients'[c].timers) <= Len(clients[c].timers)]_vars

\* The sockets of a client that are connecting or open.
LiveSockets(cl) ==
    (IF cl.readyState \in {"connecting", "open"} THEN 1 ELSE 0) + cl.replaced

\* The delay of reconnect attempt n.
DelayOf(n) == reconnectDelay * 2 ^ (n - 1)

\* Client c counts at most maxReconnectAttempts attempts, every pending timer
\* has the delay of one of them, and at most one socket is connecting or open.
ReconnectBound(c) ==
    /\ clients[c].reconnectAttempts \in 0..maxReconnectAttempts
    /\ \A i \in DOMAIN clients[c].timers :
          clients[c].timers[i] \in {DelayOf(n) : n \in 1..maxReconnectAttempts}
    /\ LiveSockets(clients[c]) <= 1

\* A step that schedules a reconnect of client c counts one attempt more, n,
\* schedules it after DelayOf(n), and is taken with fewer than
\* maxReconnectAttempts attempts counted; onopen sets the count to 0.
ReconnectStep(c) ==
    /\ Len(clients'[c].timers) > Len(clients[c].timers) =>
           /\ clients[c].reconnectAttempts < maxReconnectAttempts
           /\ clients'[c].reconnectAttempts = clients[c].reconnectAttempts + 1
           /\ clients'[c].timers =
                  Append(clients[c].timers, DelayOf(clients'[c].reconnectAttempts))
    /\ ClientOnOpen(c) => clients'[c].reconnectAttempts = 0

\* C37: the client schedules at most maxReconnectAttempts (5) reconnect
\* attempts in a row, attempt n after 1000 * 2^(n-1) ms; an open sets the
\* count to 0; once 5 attempts have been counted a further close schedules
\* nothing, so the reconnect loop ends; and reconnecting never leaves the
\* client with more than one socket that is connecting or open.
BoundedReconnect ==
    /\ [](\A c \in DOMAIN clients : ReconnectBound(c))
    /\ [][\A c \in DOMAIN clients : ReconnectStep(c)]_vars

\* The client has given up: five attempts were counted, the socket of the
\* last has closed and no timer is pending.
ReconnectGivenUp ==
    \E c \in DOMAIN clients :
        /\ clients[c].reconnectAttempts = maxReconnectAttempts
        /\ clients[c].readyState = "closed"
        /\ clients[c].timers = <<>>
        /\ clients[c].closing = <<>>

\* ------------------------------------------------- the page's ResizeManager
\* A step of the page leaves the relay and its clients as they are.
PageStep(R) ==
    /\ resize' = R
    /\ UNCHANGED <<serverVars, hashesUsed, actorsUsed, outbox, toServer, clients,
                   hist, apiVars>>

\* A component calls observe(target, callback).
PageObserve(target, callback) == PageStep(observe(resize, target, callback))

\* A component calls unobserve(target, callback).
PageUnobserve(target, callback) == PageStep(unobserve(resize, target, callback))

\* The browser reports a size of an element #vo observes.
PageResize(target, size) ==
    /\ target \in resize.observed
    /\ PageStep(voCallback(resize, target, size))

NextResize ==
    \/ \E e \in Elements, cb \in Callbacks : PageObserve(e, cb)
    \/ \E e \in Elements, cb \in Callbacks : PageUnobserve(e, cb)
    \/ \E e \in Elements, size \in Sizes : PageResize(e, size)

SpecResize == Init /\ [][NextResize]_vars

\* The callbacks registered for an element.
Registered(R, e) == IF e \in DOMAIN R.elementMap THEN R.elementMap[e] ELSE {}

\* C38: the ResizeObserver observes an element exactly when a callback is
\* registered for it; unobserve with a target or a callback that is not
\* registered changes neither the registrations nor what is observed; and
\* an entry the browser reports for an element is passed to every callback
\* registered for it and to no other.
ObservedIffRegistered ==
    /\ [](\A e \in Elements : e \in resize.observed <=> Registered(resize, e) # {})
    /\ [][/\ \A e \in Elements, cb \in Callbacks :
                (PageUnobserve(e, cb) /\ cb \notin Registered(resize, e)) =>
                    /\ resize'.elementMap = resize.elementMap
                    /\ resize'.elementEntry = resize.elementEntry
                    /\ resize'.observed = resize.observed
                    /\ resize'.calls = {}
          /\ \A e \in Elements, size \in Sizes :
                PageResize(e, size) =>
                    resize'.calls =
                        {<<cb, e, size>> : cb \in Registered(resize, e)}]_vars

\* An entry was passed to the two callbacks of an element while the other
\* element, once observed, has no callback left and is not observed.
EntryPassedToBoth ==
    \E e \in Elements :
        /\ Cardinality(resize.calls) = 2
        /\ \A call \in resize.calls : call[2] = e
        /\ \E d \in Elements \ {e} :
              /\ d \in DOMAIN resize.elementEntry
              /\ d \notin resize.observed

=============================================================================
